---- MODULE Spec2Model ----
(***************************************************************************)
(* Darknet-to-TensorFlow weight transplant of the YOLO model garden:       *)
(* yolo/utils/_darknet2tf/load_weights.py and the assembler                *)
(* yolo/modeling/Yolov1.py.                                                *)
(*                                                                         *)
(* A Darknet layer record is [type, id, nw]: the layer-type string, the    *)
(* record's position in the list the reader produced, and the number of    *)
(* weight arrays get_weights() returns for it.  A weight array is          *)
(* <<id, k>>: the k-th array of record id.                                 *)
(***************************************************************************)
EXTENDS Integers, Sequences, FiniteSets, TLC

VARIABLES
  net,             \* the Darknet record list handed to a format function
  op,              \* the operation that ran
  status,          \* "ready", "returned" or "raised"
  out,             \* what the operation returned
  head,            \* a model object: [isModel, trainable, layers]
  weights_decoder, \* weight groups assigned positionally
  head_weights,    \* head-output weight sets assigned by depth
  log,             \* every layer.set_weights call that succeeded and every
                   \* freeze, in order, of the last operation
  yolo,            \* the assembler object (Yolov1 in modeling/Yolov1.py)
  backbone,        \* the assembler's backbone, a model object like head
  args,            \* the arguments of the last call (for a layer or parser
                   \* object: of its constructor, and of the method that ran)
  obj              \* a layer or parser object (DarkRouteProcess, YoloParser,
                   \* YoloPostProcessing, Classification_Parser)

vars == <<net, op, status, out, head, weights_decoder, head_weights, log,
          yolo, backbone, args, obj>>

\* ---------------------------------------------------------------- bounds
MaxNet53 == 6

\* ------------------------------------------------------------- utilities
SeqsUpTo(S, n) == UNION {[1..k -> S] : k \in 0..n}

\* python lst[a:b] for 0 <= a, on 0-based bounds (b clipped to the length)
Slice(s, a, b) ==
  LET hi == IF b > Len(s) THEN Len(s) ELSE b
  IN  IF a >= hi THEN <<>> ELSE [i \in 1..(hi - a) |-> s[a + i]]

RECURSIVE Chain(_)
\* itertools.chain.from_iterable
Chain(ss) == IF Len(ss) = 0 THEN <<>> ELSE Head(ss) \o Chain(Tail(ss))

\* number of weight arrays of a record of type t: a convolution followed by
\* normalization carries kernel + 4 normalization arrays
NumWeights(t) == IF t = "convolutional" THEN 5 ELSE 0

MkNet(ts) == [i \in 1..Len(ts) |-> [_type |-> ts[i], id |-> i, nw |-> NumWeights(ts[i])]]

\* layer.get_weights()
get_weights(layer) == [k \in 1..layer.nw |-> <<layer.id, k>>]

NoOut == [raised |-> FALSE]

\* ------------------------------------------------------ interleve_weights
\* interleve_weights chaining each layer's top and bottom together, layer by
\* layer, instead of all tops before all bottoms
interleve_weights_per_layer(block) ==
  IF Len(block) = 0 THEN <<>>
  ELSE Chain([i \in 1..Len(block) |-> get_weights(block[i])])

interleve_weights(block) ==
  IF Len(block) = 0 THEN <<>>
  ELSE LET top    == [i \in 1..Len(block) |-> Slice(get_weights(block[i]), 0, 3)]
           bottom == [i \in 1..Len(block) |->
                        Slice(get_weights(block[i]), 3, Len(get_weights(block[i])))]
       IN  Chain(top) \o Chain(bottom)

\* an entry of new_net: a lone layer (block = FALSE, one layer) or a list
Lone(layer)   == [block |-> FALSE, layers |-> <<layer>>]
Block(layers) == [block |-> TRUE, layers |-> layers]

\* the "only_weights" tail shared by the format functions
FormatWeights(new_net) ==
  [i \in 1..Len(new_net) |->
     IF new_net[i].block THEN interleve_weights(new_net[i].layers)
     ELSE get_weights(new_net[i].layers[1])]

\* ------------------------------------------------ get_darknet53_tf_format
\* The loops are modelled by position instead of by recursion, one level of
\* which per record is too deep for the 76-record backbone lists.
\* The inner loop, entered when `start` records of rest have been popped:
\*   layer = net.pop(0)
\*   while layer._type != "shortcut": blocks.append(layer); layer = net.pop(0)
\* pops up to and including the next shortcut; with no shortcut left,
\* net.pop(0) raises IndexError on the emptied list.
Dn53Inner(rest, start) ==
  IF \A i \in (start + 1)..Len(rest) : rest[i]._type # "shortcut"
  THEN [raised |-> TRUE, blocks |-> SubSeq(rest, start + 1, Len(rest)),
        popped |-> Len(rest)]
  ELSE LET k == CHOOSE i \in (start + 1)..Len(rest) :
                   /\ rest[i]._type = "shortcut"
                   /\ \A j \in (start + 1)..(i - 1) : rest[j]._type # "shortcut"
       IN  [raised |-> FALSE, blocks |-> SubSeq(rest, start + 1, k - 1),
            popped |-> k]

\* while len(net) != 0: one pass per shortcut, the j-th entered when the
\* (j - 1)-th shortcut has been popped; a further pass is entered, and its
\* inner loop raises, when records are left after the last shortcut
Dn53Outer(rest) ==
  LET order    == SelectSeq([i \in 1..Len(rest) |-> i],
                            LAMBDA i : rest[i]._type = "shortcut")
      passes   == Len(order)
      Popped(j) == IF j = 0 THEN 0 ELSE order[j]
  IN  [raised  |-> Popped(passes) < Len(rest) /\ Dn53Inner(rest, Popped(passes)).raised,
       encoder |-> [j \in 1..passes |-> Block(Dn53Inner(rest, Popped(j - 1)).blocks)]]

get_darknet53_tf_format(n) ==
  IF Len(n) < 2 THEN [raised |-> TRUE]
  ELSE LET combo_blocks == <<Lone(n[1]), Lone(n[2])>>
           enc == Dn53Outer(Slice(n, 2, Len(n)))
       IN  IF enc.raised THEN [raised |-> TRUE]
           ELSE [raised  |-> FALSE,
                 new_net |-> combo_blocks \o enc.encoder,
                 weights |-> FormatWeights(combo_blocks \o enc.encoder)]

\* ------------------------------------------------------------ operations
Finish(name, r) ==
  /\ op' = name
  /\ out' = r
  /\ status' = IF r.raised THEN "raised" ELSE "returned"
  /\ UNCHANGED <<net, head, weights_decoder, head_weights, log,
                 yolo, backbone, args, obj>>

\* a model object nothing has been loaded into, and no weights
NoModel == [isModel |-> TRUE, trainable |-> TRUE, layers |-> <<>>]
\* no assembler has been constructed
NoYolo == [constructed |-> FALSE]
NoArgs == [dn2tf_backbone |-> FALSE, dn2tf_head |-> FALSE]
\* no layer or parser object has been constructed
NoObj == [class |-> "None"]
NoAssembler ==
  /\ yolo = NoYolo
  /\ backbone = NoModel
  /\ args = NoArgs
  /\ obj = NoObj
NoAssign ==
  /\ head = NoModel
  /\ weights_decoder = <<>>
  /\ head_weights = <<>>
  /\ log = <<>>
  /\ NoAssembler

Dn53Types == {"convolutional", "shortcut"}

InitDn53 ==
  /\ net \in {MkNet(ts) : ts \in SeqsUpTo(Dn53Types, MaxNet53)}
  /\ op = "none"
  /\ status = "ready"
  /\ out = NoOut
  /\ NoAssign

CallDn53 ==
  /\ status = "ready"
  /\ Finish("get_darknet53_tf_format", get_darknet53_tf_format(net))

SpecDn53 == InitDn53 /\ [][CallDn53]_vars

\* ------------------------------------------------ get_darknet20_tf_format
MaxNet20 == 8

\* one pass of the while loop: maxpool goes to the encoder standalone, any
\* other record to blocks, flushed when it holds num_per_block = 2 records
Dn20Step(st, layer) ==
  IF layer._type = "maxpool"
  THEN [st EXCEPT !.encoder = Append(@, Lone(layer))]
  ELSE IF Len(st.blocks) + 1 = 2
       THEN [encoder |-> Append(st.encoder, Block(Append(st.blocks, layer))),
             blocks  |-> <<>>]
       ELSE [st EXCEPT !.blocks = Append(@, layer)]

RECURSIVE Dn20Loop(_, _)
Dn20Loop(rest, st) ==
  IF Len(rest) = 0 THEN st ELSE Dn20Loop(Tail(rest), Dn20Step(st, Head(rest)))

get_darknet20_tf_format(n) ==
  IF Len(n) < 5 THEN [raised |-> TRUE]
  ELSE LET combo_blocks == [i \in 1..5 |-> Lone(n[i])]
           st == Dn20Loop(Slice(n, 5, Len(n)), [encoder |-> <<>>, blocks |-> <<>>])
       IN  [raised  |-> FALSE,
            new_net |-> combo_blocks \o st.encoder,
            weights |-> FormatWeights(combo_blocks \o st.encoder)]

Dn20Types == {"convolutional", "maxpool"}

InitDn20 ==
  /\ net \in {MkNet(ts) : ts \in SeqsUpTo(Dn20Types, MaxNet20)}
  /\ op = "none"
  /\ status = "ready"
  /\ out = NoOut
  /\ NoAssign

CallDn20 ==
  /\ status = "ready"
  /\ Finish("get_darknet20_tf_format", get_darknet20_tf_format(net))

SpecDn20 == InitDn20 /\ [][CallDn20]_vars

\* ---------------------------------------------------------- split_decoder
MaxDecoder == 5

\* SplitStep with decoder.pop(0) in place of decoder.pop()
SplitStepPopFirst(st, layer) ==
  IF layer._type = "yolo"
  THEN IF Len(st.decoder) = 0 THEN [st EXCEPT !.raised = TRUE]
       ELSE [st EXCEPT !.decoder = Tail(@),
                       !.outputs = @ \o <<st.decoder[1], layer>>]
  ELSE [st EXCEPT !.decoder = Append(@, layer)]

\* one pass of the for loop; decoder.pop() raises IndexError on an empty list
SplitStep(st, layer) ==
  IF layer._type = "yolo"
  THEN IF Len(st.decoder) = 0 THEN [st EXCEPT !.raised = TRUE]
       ELSE [st EXCEPT !.decoder = SubSeq(@, 1, Len(@) - 1),
                       !.outputs = @ \o <<st.decoder[Len(st.decoder)], layer>>]
  ELSE [st EXCEPT !.decoder = Append(@, layer)]

RECURSIVE SplitLoop(_, _)
SplitLoop(rest, st) ==
  IF Len(rest) = 0 \/ st.raised THEN st
  ELSE SplitLoop(Tail(rest), SplitStep(st, Head(rest)))

split_decoder(lst) ==
  SplitLoop(lst, [decoder |-> <<>>, outputs |-> <<>>, raised |-> FALSE])

\* ----------------------------------------------------- get_decoder_weights
\* decoder[i - 1] for the 0-based i of the loop: python wraps index -1 to the
\* last element (pos is the 1-based position of the current record)
Prev(decoder, pos) == IF pos = 1 THEN decoder[Len(decoder)] ELSE decoder[pos - 1]

GroupStep(st, decoder, pos) ==
  LET layer == decoder[pos]
  IN  IF layer._type = "route" /\ Prev(decoder, pos)._type # "maxpool"
      THEN [layers |-> Append(st.layers, st.block), block |-> <<>>]
      ELSE IF \/ (layer._type = "route" /\ Prev(decoder, pos)._type = "maxpool")
              \/ layer._type = "maxpool"
           THEN st
           ELSE IF layer._type = "convolutional"
                THEN [st EXCEPT !.block = Append(@, layer)]
                ELSE [st EXCEPT !.layers = Append(@, <<>>)]

RECURSIVE GroupLoop(_, _, _)
GroupLoop(st, decoder, pos) ==
  IF pos > Len(decoder) THEN st
  ELSE GroupLoop(GroupStep(st, decoder, pos), decoder, pos + 1)

get_decoder_weights(lst) ==
  LET sp == split_decoder(lst)
  IN  IF sp.raised THEN [raised |-> TRUE]
      ELSE LET st == GroupLoop([layers |-> <<(<<>>)>>, block |-> <<>>], sp.decoder, 1)
               layers == IF Len(st.block) > 0 THEN Append(st.layers, st.block)
                         ELSE st.layers
               head_layers == SelectSeq(sp.outputs, LAMBDA l : l._type = "convolutional")
           IN  [raised       |-> FALSE,
                decoder      |-> sp.decoder,
                layers       |-> layers,
                weights      |-> [i \in 1..Len(layers) |-> interleve_weights(layers[i])],
                head_layers  |-> head_layers,
                head_weights |-> [i \in 1..Len(head_layers) |-> get_weights(head_layers[i])]]

DecoderTypes == {"convolutional", "route", "maxpool", "yolo", "upsample"}

InitDecoder ==
  /\ net \in {MkNet(ts) : ts \in SeqsUpTo(DecoderTypes, MaxDecoder)}
  /\ op = "none"
  /\ status = "ready"
  /\ out = NoOut
  /\ NoAssign

CallSplitDecoder ==
  /\ status = "ready"
  /\ Finish("split_decoder", split_decoder(net))

CallGetDecoderWeights ==
  /\ status = "ready"
  /\ Finish("get_decoder_weights", get_decoder_weights(net))

SpecDecoder == InitDecoder /\ [][CallSplitDecoder \/ CallGetDecoderWeights]_vars

\* ------------------------------------------------- interleve_weights alone
MaxBlock == 4

\* blocks of convolution records with 5 (normalized), 2 (kernel + bias) or no
\* weight arrays
InitInterleve ==
  /\ net \in {[i \in 1..Len(ns) |-> [_type |-> "convolutional", id |-> i, nw |-> ns[i]]] :
                ns \in SeqsUpTo({0, 2, 5}, MaxBlock)}
  /\ op = "none"
  /\ status = "ready"
  /\ out = NoOut
  /\ NoAssign

CallInterleve ==
  /\ status = "ready"
  /\ Finish("interleve_weights", [raised |-> FALSE, weights |-> interleve_weights(net)])

SpecInterleve == InitInterleve /\ [][CallInterleve]_vars

\* =========================================================================
\* Weight assignment onto layer objects
\*
\* A layer object is [shape, held]: shape = <<depth, n>> is the second-to-last
\* dimension of its kernel and the number of weight arrays it owns (<<0, 0>>
\* for a layer without weights); held names the weight group it holds.
\* A weight group is [id, shape].  Layers are referred to by their position
\* in model.layers.
\* =========================================================================
MaxLayers == 4
MaxWeights == 2
MaxLoadDecoder == 4

Depth(shape) == shape[1]

\* for layer in model.layers: yield from model.layers (a ks.Model) / yield layer
flatten_model(model) ==
  LET n == Len(model.layers)
  IN  IF model.isModel
      THEN Chain([i \in 1..n |-> [j \in 1..n |-> j]])
      ELSE [i \in 1..n |-> i]

\* layer.set_weights(w) of the layer runtime: refuses a weight list whose
\* count or array shapes differ from the layer's own
SetWeightsOk(layer, w) == layer.shape = w.shape

AssignState(model) == [layers |-> model.layers, log |-> <<>>, raised |-> FALSE]

RECURSIVE ZipAssign(_, _, _, _)
\* for i, (layer, weights) in enumerate(zip(zip_fill, weights_list))
ZipAssign(st, zip_fill, weights_list, k) ==
  IF k > Len(zip_fill) \/ k > Len(weights_list) THEN st
  ELSE LET li == zip_fill[k]
           w  == weights_list[k]
       IN  IF ~SetWeightsOk(st.layers[li], w) THEN [st EXCEPT !.raised = TRUE]
           ELSE ZipAssign([st EXCEPT !.layers[li].held = w.id,
                                     !.log = Append(@, <<li, w.id>>)],
                          zip_fill, weights_list, k + 1)

\* flat_model is [given, flat]: given = FALSE stands for flat_model=None
NoFlat == [given |-> FALSE, flat |-> <<>>]
set_darknet_weights(st, model, weights_list, flat_model) ==
  LET zip_fill == IF ~flat_model.given THEN flatten_model(model)
                  ELSE flat_model.flat
  IN  ZipAssign(st, zip_fill, weights_list, 1)

RECURSIVE HeadInner(_, _, _, _, _)
\* for weight in weights_head: if weight[0].shape[-2] == weight_depth
HeadInner(st, li, weight_depth, weights_head, k) ==
  IF k > Len(weights_head) THEN st
  ELSE LET w == weights_head[k]
       IN  IF Depth(w.shape) = weight_depth
           THEN IF ~SetWeightsOk(st.layers[li], w) THEN [st EXCEPT !.raised = TRUE]
                ELSE HeadInner([st EXCEPT !.layers[li].held = w.id,
                                          !.log = Append(@, <<li, w.id>>)],
                               li, weight_depth, weights_head, k + 1)
           ELSE HeadInner(st, li, weight_depth, weights_head, k + 1)

RECURSIVE set_darknet_weights_head(_, _, _, _)
\* for layer in flat_head: weights[0] raises IndexError on a layer without
\* weights
set_darknet_weights_head(st, flat_head, weights_head, k) ==
  IF k > Len(flat_head) THEN st
  ELSE LET li == flat_head[k]
       IN  IF st.layers[li].shape[2] = 0 THEN [st EXCEPT !.raised = TRUE]
           ELSE LET st2 == HeadInner(st, li, Depth(st.layers[li].shape),
                                     weights_head, 1)
                IN  IF st2.raised THEN st2
                    ELSE set_darknet_weights_head(st2, flat_head, weights_head, k + 1)

\* flat_full[:-3] and flat_full[-3:]
AllButLast3(s) == Slice(s, 0, IF Len(s) > 3 THEN Len(s) - 3 ELSE 0)
Last3(s) == Slice(s, IF Len(s) > 3 THEN Len(s) - 3 ELSE 0, Len(s))

\* the weight group made of a list of weight arrays <<id, k>>: its shape is
\* the kernel depth of the first array (1 for every Darknet record here) and
\* the number of arrays
AsGroup(tag, i, arrays) ==
  [id |-> <<tag, i>>,
   shape |-> IF Len(arrays) = 0 THEN <<0, 0>> ELSE <<1, Len(arrays)>>]
AsGroups(tag, weights) == [i \in 1..Len(weights) |-> AsGroup(tag, i, weights[i])]

Freeze(tag) == <<0, <<tag, 0>>>>

\* load_weights_dnHead(head, decoder); the result carries the two weight
\* lists get_decoder_weights produced
load_weights_dnHead(model, decoder) ==
  LET dw == get_decoder_weights(decoder)
  IN  IF dw.raised
      THEN [AssignState(model) EXCEPT !.raised = TRUE]
              @@ [trainable |-> model.trainable,
                  weights_decoder |-> <<>>, head_weights |-> <<>>]
      ELSE
  LET weights_dec == AsGroups("body", dw.weights)
      head_w    == AsGroups("head", dw.head_weights)
      flat_full == flatten_model(model)
      flat_main == AllButLast3(flat_full)
      flat_head == Last3(flat_full)
      st1 == set_darknet_weights(AssignState(model), model, weights_dec,
                                 [given |-> TRUE, flat |-> flat_main])
      st2 == IF st1.raised THEN st1
             ELSE set_darknet_weights_head(st1, flat_head, head_w, 1)
      st3 == IF st2.raised THEN st2
             ELSE [st2 EXCEPT !.log = Append(@, Freeze("freeze_head"))]
  IN  st3 @@ [trainable |-> IF st2.raised THEN model.trainable ELSE FALSE,
              weights_decoder |-> weights_dec, head_weights |-> head_w]

\* ------------------------------------------------------------ operations
LayerShapes == {<<0, 0>>, <<1, 5>>, <<1, 10>>, <<2, 5>>}
WeightShapes == {<<1, 5>>, <<1, 10>>, <<2, 5>>}

MkLayers(shs) == [i \in 1..Len(shs) |-> [shape |-> shs[i], held |-> <<"init", i>>]]
MkWeights(tag, shs) == [i \in 1..Len(shs) |-> [id |-> <<tag, i>>, shape |-> shs[i]]]

Models(n) ==
  {[isModel |-> m, trainable |-> TRUE, layers |-> MkLayers(shs)] :
      m \in BOOLEAN, shs \in SeqsUpTo(LayerShapes, n)}

Applied(name, st, tr) ==
  /\ op' = name
  /\ status' = IF st.raised THEN "raised" ELSE "returned"
  /\ head' = [head EXCEPT !.layers = st.layers, !.trainable = tr]
  /\ log' = st.log
  /\ UNCHANGED <<net, out, yolo, backbone, args, obj>>

InitSetWeights ==
  /\ net = <<>> /\ op = "none" /\ status = "ready" /\ out = NoOut
  /\ head \in Models(MaxLayers - 1)
  /\ weights_decoder \in {MkWeights("body", shs) :
        shs \in SeqsUpTo(WeightShapes \cup {<<0, 0>>}, MaxWeights + 1)}
  /\ head_weights = <<>>
  /\ log = <<>>
  /\ NoAssembler

CallSetDarknetWeights ==
  /\ status = "ready"
  /\ Applied("set_darknet_weights",
             set_darknet_weights(AssignState(head), head, weights_decoder, NoFlat),
             head.trainable)
  /\ UNCHANGED <<weights_decoder, head_weights>>

SpecSetWeights == InitSetWeights /\ [][CallSetDarknetWeights]_vars

InitSetHead ==
  /\ net = <<>> /\ op = "none" /\ status = "ready" /\ out = NoOut
  /\ head \in Models(MaxLayers - 1)
  /\ weights_decoder = <<>>
  /\ head_weights \in {MkWeights("head", shs) :
        shs \in SeqsUpTo(WeightShapes, MaxWeights + 1)}
  /\ log = <<>>
  /\ NoAssembler

CallSetDarknetWeightsHead ==
  /\ status = "ready"
  /\ Applied("set_darknet_weights_head",
             set_darknet_weights_head(AssignState(head),
                                      [i \in 1..Len(head.layers) |-> i],
                                      head_weights, 1),
             head.trainable)
  /\ UNCHANGED <<weights_decoder, head_weights>>

SpecSetHead == InitSetHead /\ [][CallSetDarknetWeightsHead]_vars

LoadHeadTypes == {"convolutional", "route", "yolo"}

InitLoadHead ==
  /\ net \in {MkNet(ts) : ts \in SeqsUpTo(LoadHeadTypes, MaxLoadDecoder)}
  /\ op = "none" /\ status = "ready" /\ out = NoOut
  /\ head \in Models(MaxLayers)
  /\ weights_decoder = <<>>
  /\ head_weights = <<>>
  /\ log = <<>>
  /\ NoAssembler

CallLoadWeightsDnHead ==
  /\ status = "ready"
  /\ LET st == load_weights_dnHead(head, net)
     IN  /\ Applied("load_weights_dnHead", st, st.trainable)
         /\ weights_decoder' = st.weights_decoder
         /\ head_weights' = st.head_weights

SpecLoadHead == InitLoadHead /\ [][CallLoadWeightsDnHead]_vars

\* =========================================================================
\* The assembler: modeling/Yolov1.py
\*
\* None-able arguments are [some, val]; thresholds are in hundredths
\* (45 = 0.45); the x/y scale 1.0 is 1.
\* =========================================================================
None == [some |-> FALSE, val |-> <<>>]
Some(v) == [some |-> TRUE, val |-> v]
\* python "x or default": None, [] and {} are falsy
OrDefault(x, default) == IF x.some /\ DOMAIN x.val # {} THEN x ELSE Some(default)

default_dict ==
  [regular |-> [backbone |-> "darknet53", head |-> "regular", name |-> "yolov3"],
   spp     |-> [backbone |-> "darknet53", head |-> "spp", name |-> "yolov3-spp"],
   tiny    |-> [backbone |-> "darknet_tiny", head |-> "tiny", name |-> "yolov3-tiny"],
   yolov1  |-> [backbone |-> "yolov1_backbone"]]

SplitRegular == 76
SplitTiny == 14
BoxesRegular == << <<10, 13>>, <<16, 30>>, <<33, 23>>, <<30, 61>>, <<62, 45>>,
                   <<59, 119>>, <<116, 90>>, <<156, 198>>, <<373, 326>> >>
MasksRegular == ("1024" :> <<6, 7, 8>>) @@ ("512" :> <<3, 4, 5>>) @@ ("256" :> <<0, 1, 2>>)
PathScalesRegular == ("1024" :> 32) @@ ("512" :> 16) @@ ("256" :> 8)
XYScalesRegular == ("1024" :> 1) @@ ("512" :> 1) @@ ("256" :> 1)
BoxesTiny == << <<10, 14>>, <<23, 27>>, <<37, 58>>, <<81, 82>>, <<135, 169>>,
                <<344, 319>> >>
MasksTiny == ("1024" :> <<3, 4, 5>>) @@ ("256" :> <<0, 1, 2>>)
PathScalesTiny == ("1024" :> 32) @@ ("256" :> 8)
XYScalesTiny == ("1024" :> 1) @@ ("256" :> 1)

\* Yolov1.__init__ up to the call of get_models; a holds the constructor's
\* arguments.  backbone / head / head_filter are "None", "Dict" or "custom".
YoloInit(a) ==
  [constructed  |-> TRUE,
   model_name   |-> a.model,
   _encoder_decoder_split_location |-> None,
   _custom_aspects |-> FALSE,
   _thresh      |-> a.thresh,
   _class_thresh |-> 45,
   _max_boxes   |-> 200,
   _boxes       |-> a.boxes,
   _masks       |-> a.masks,
   _path_scales |-> a.path_scales,
   _x_y_scales  |-> None,
   _model_name  |-> "None",
   _backbone_name |-> "None",
   backbone     |-> a.backbone,
   head         |-> a.head,
   head_filter  |-> [kind |-> a.head_filter]]

\* ResolveVariant with the tiny branch giving the three-scale masks and strides
ResolveVariant_tiny_three_scales(self) ==
  IF self.model_name \in {"regular", "spp"}
  THEN [self EXCEPT !._encoder_decoder_split_location = Some(SplitRegular),
                    !._boxes = OrDefault(@, BoxesRegular),
                    !._masks = OrDefault(@, MasksRegular),
                    !._path_scales = OrDefault(@, PathScalesRegular),
                    !._x_y_scales = OrDefault(@, XYScalesRegular)]
  ELSE IF self.model_name = "tiny"
  THEN [self EXCEPT !._encoder_decoder_split_location = Some(SplitTiny),
                    !._boxes = OrDefault(@, BoxesTiny),
                    !._masks = OrDefault(@, MasksRegular),
                    !._path_scales = OrDefault(@, PathScalesRegular),
                    !._x_y_scales = OrDefault(@, XYScalesRegular)]
  ELSE self

\* lines 105-131: the variant's split index, anchors, masks and strides
ResolveVariant(self) ==
  IF self.model_name \in {"regular", "spp"}
  THEN [self EXCEPT !._encoder_decoder_split_location = Some(SplitRegular),
                    !._boxes = OrDefault(@, BoxesRegular),
                    !._masks = OrDefault(@, MasksRegular),
                    !._path_scales = OrDefault(@, PathScalesRegular),
                    !._x_y_scales = OrDefault(@, XYScalesRegular)]
  ELSE IF self.model_name = "tiny"
  THEN [self EXCEPT !._encoder_decoder_split_location = Some(SplitTiny),
                    !._boxes = OrDefault(@, BoxesTiny),
                    !._masks = OrDefault(@, MasksTiny),
                    !._path_scales = OrDefault(@, PathScalesTiny),
                    !._x_y_scales = OrDefault(@, XYScalesTiny)]
  ELSE self

\* lines 133-143
ResolveBackbone(self) ==
  IF self.backbone \in {"None", "Dict"}
  THEN [self EXCEPT !._backbone_name = default_dict[self.model_name].backbone,
                    !.backbone = "Backbone_Builder"]
  ELSE [self EXCEPT !._custom_aspects = TRUE]

\* lines 145-153 raise KeyError when the variant has no "head" entry and none
\* was given, and TypeError on len(None) when no anchors were resolved
HeadRaises(self) ==
  /\ self.head \in {"None", "Dict"}
  /\ \/ self.head = "None" /\ "head" \notin DOMAIN default_dict[self.model_name]
     \/ ~self._boxes.some

ResolveHead(self) ==
  IF self.head \in {"None", "Dict"}
  THEN [self EXCEPT !.head = "Yolov3Head"]
  ELSE [self EXCEPT !._custom_aspects = TRUE]

\* lines 157-165
ResolveFilter(self) ==
  IF self.head_filter.kind = "None"
  THEN [self EXCEPT !.head_filter =
          [kind       |-> "YoloLayer",
           masks      |-> self._masks,
           anchors    |-> self._boxes,
           thresh     |-> self._thresh,
           cls_thresh |-> self._class_thresh,
           max_boxes  |-> self._max_boxes,
           path_scale |-> self._path_scales]]
  ELSE self

\* get_models: the assembled object, or NoYolo when construction raises
get_models(self) ==
  LET s1 == ResolveBackbone(ResolveVariant(self))
  IN  IF HeadRaises(s1) THEN NoYolo
      ELSE LET s2 == ResolveFilter(ResolveHead(s1))
           IN  IF "name" \notin DOMAIN default_dict[self.model_name] THEN NoYolo
               ELSE [s2 EXCEPT !._model_name = default_dict[self.model_name].name]

Variants == {"regular", "spp", "tiny", "yolov1"}
Overrides == {"None", "Dict", "custom"}
CustomBoxes == << <<12, 16>>, <<19, 36>> >>
CustomMasks == ("512" :> <<0, 1>>)
CustomPathScales == ("512" :> 16)

CtorArgs ==
  [model : Variants, backbone : Overrides, head : Overrides,
   head_filter : {"None", "custom"},
   boxes : {None, Some(<<>>), Some(CustomBoxes)},
   masks : {None, Some(CustomMasks)},
   path_scales : {None, Some(CustomPathScales)},
   thresh : {45, 50}, class_thresh : {45, 25}]

\* ------------------------------------------------------------ construction
InitAssemble ==
  /\ net = <<>> /\ op = "none" /\ status = "ready" /\ out = NoOut
  /\ head = NoModel /\ weights_decoder = <<>> /\ head_weights = <<>> /\ log = <<>>
  /\ yolo = NoYolo
  /\ backbone = NoModel
  /\ args \in CtorArgs
  /\ obj = NoObj

Construct ==
  /\ status = "ready"
  /\ op' = "__init__"
  /\ yolo' = get_models(YoloInit(args))
  /\ status' = IF yolo'.constructed THEN "returned" ELSE "raised"
  /\ UNCHANGED <<net, out, head, weights_decoder, head_weights, log, backbone,
                 args, obj>>

SpecAssemble == InitAssemble /\ [][Construct]_vars

\* ------------------------------------------------------ get_tiny_tf_format
get_tiny_tf_format(encoder) ==
  LET kept == SelectSeq(encoder, LAMBDA layer : layer._type # "maxpool")
  IN  [raised  |-> FALSE,
       new_net |-> [i \in 1..Len(encoder) |-> Lone(encoder[i])],
       weights |-> [i \in 1..Len(kept) |-> get_weights(kept[i])]]

\* ------------------------------------------------- load_weights_dnBackbone
\* load_weights_dnBackbone without the final backbone.trainable = False
load_weights_dnBackbone_nofreeze(model, encoder, mtype) ==
  LET fmt == IF mtype = "darknet53" THEN get_darknet53_tf_format(encoder)
             ELSE IF mtype = "darknet_tiny" THEN get_tiny_tf_format(encoder)
             ELSE IF mtype = "darknet20" THEN get_darknet20_tf_format(encoder)
             ELSE [raised |-> TRUE]
  IN  IF fmt.raised
      THEN [AssignState(model) EXCEPT !.raised = TRUE] @@ [trainable |-> model.trainable]
      ELSE set_darknet_weights(AssignState(model), model,
                               AsGroups("encoder", fmt.weights), NoFlat)
              @@ [trainable |-> model.trainable]

\* an mtype none of the branches names leaves weights_encoder unbound, and
\* line 114 raises UnboundLocalError
load_weights_dnBackbone(model, encoder, mtype) ==
  LET fmt == IF mtype = "darknet53" THEN get_darknet53_tf_format(encoder)
             ELSE IF mtype = "darknet_tiny" THEN get_tiny_tf_format(encoder)
             ELSE IF mtype = "darknet20" THEN get_darknet20_tf_format(encoder)
             ELSE [raised |-> TRUE]
  IN  IF fmt.raised
      THEN [AssignState(model) EXCEPT !.raised = TRUE] @@ [trainable |-> model.trainable]
      ELSE LET st == set_darknet_weights(AssignState(model), model,
                                         AsGroups("encoder", fmt.weights), NoFlat)
           IN  IF st.raised THEN st @@ [trainable |-> model.trainable]
               ELSE [st EXCEPT !.log = Append(@, Freeze("freeze_backbone"))]
                       @@ [trainable |-> FALSE]

\* ---------------------------------------------------- load_weights_from_dn
\* split_converter(lst, i): lst.data[:i], lst.data[i:]
split_converter(lst, i) ==
  [encoder |-> Slice(lst, 0, i), decoder |-> Slice(lst, i, Len(lst))]

Untouched(model) == AssignState(model) @@ [trainable |-> model.trainable]
Loaded(model, st) == [model EXCEPT !.layers = st.layers, !.trainable = st.trainable]

\* lines 222-238 once DarkNetConverter.read has returned list_encdec
load_weights_from_dn(self, bb, hd, dn2tf_backbone, dn2tf_head, list_encdec) ==
  LET sp == split_converter(list_encdec, self._encoder_decoder_split_location.val)
      rb == IF dn2tf_backbone
            THEN load_weights_dnBackbone(bb, sp.encoder, self._backbone_name)
            ELSE Untouched(bb)
      rh == IF ~rb.raised /\ dn2tf_head
            THEN load_weights_dnHead(hd, sp.decoder)
            ELSE Untouched(hd)
  IN  [raised   |-> rb.raised \/ rh.raised,
       backbone |-> Loaded(bb, rb),
       head     |-> Loaded(hd, rh),
       log      |-> rb.log \o rh.log]

\* ------------------------------------------------------------- life cycle
MaxAsmLayers == 1
MaxTail == 2

\* what DarkNetConverter.read can return for a variant split at index n: a
\* well-formed backbone prefix of n - 1 records (2 stem records, then
\* residual blocks closed by a shortcut), the record at the split and up to
\* MaxTail decoder records
ReadLists(n) ==
  {MkNet([i \in 1..(n - 1) |->
             IF i >= 5 /\ (i - 5) % 3 = 0 THEN "shortcut" ELSE "convolutional"]
         \o <<e>> \o dec) :
      e \in {"convolutional", "shortcut"},
      dec \in SeqsUpTo({"convolutional", "yolo"}, MaxTail)}

\* ReadLists for the two split indices the assembler resolves
ReadListsFor == [n \in {SplitRegular, SplitTiny} |-> ReadLists(n)]

\* the objects Backbone_Builder and Yolov3Head return (or the caller passes):
\* ks.Model objects, each layer accepting the weights of one normalized
\* convolution of kernel depth 1 or 2
AsmShapes == {<<1, 5>>, <<2, 5>>}
AsmModels ==
  {[isModel |-> TRUE, trainable |-> TRUE, layers |-> MkLayers(shs)] :
      shs \in SeqsUpTo(AsmShapes, MaxAsmLayers)}

LifecycleArgs ==
  {a \in CtorArgs :
     /\ a.head_filter = "None" /\ a.boxes = None /\ a.masks = None
     /\ a.path_scales = None /\ a.thresh = 45 /\ a.class_thresh = 45}

\* the states construction leaves: an assembled object, a backbone and a head
\* nothing has been loaded into
Init ==
  /\ net = <<>> /\ out = NoOut /\ weights_decoder = <<>> /\ head_weights = <<>>
  /\ op = "__init__" /\ status = "returned"
  /\ yolo \in {get_models(YoloInit(a)) : a \in LifecycleArgs} \ {NoYolo}
  /\ backbone \in AsmModels
  /\ head \in AsmModels
  /\ args = NoArgs
  /\ obj = NoObj
  /\ log = <<>>

\* build and call run the three components and keep their weights and flags
Build ==
  /\ op' = "build" /\ status' = "returned" /\ args' = NoArgs /\ log' = <<>>
  /\ UNCHANGED <<net, out, weights_decoder, head_weights, yolo, backbone, head,
                 obj>>

Call ==
  /\ op' = "call" /\ status' = "returned" /\ args' = NoArgs /\ log' = <<>>
  /\ UNCHANGED <<net, out, weights_decoder, head_weights, yolo, backbone, head,
                 obj>>

LoadDone(b, h, r) ==
  /\ op' = "load_weights_from_dn"
  /\ args' = [dn2tf_backbone |-> b, dn2tf_head |-> h]
  /\ status' = IF r.raised THEN "raised" ELSE "returned"
  /\ backbone' = r.backbone
  /\ head' = r.head
  /\ log' = r.log
  /\ UNCHANGED <<net, out, weights_decoder, head_weights, yolo, obj>>

\* nothing is requested: nothing is read and nothing is loaded
LoadNothing ==
  /\ LoadDone(FALSE, FALSE,
              [raised |-> FALSE, backbone |-> backbone, head |-> head, log |-> <<>>])

\* download or DarkNetConverter.read fails and the failure propagates
LoadReadFails ==
  /\ \E b, h \in BOOLEAN :
       /\ b \/ h
       /\ LoadDone(b, h, [raised |-> TRUE, backbone |-> backbone, head |-> head,
                          log |-> <<>>])

LoadWeightsFromDn ==
  /\ \E b, h \in BOOLEAN :
       /\ b \/ h
       /\ \E lst \in ReadListsFor[yolo._encoder_decoder_split_location.val] :
            LoadDone(b, h, load_weights_from_dn(yolo, backbone, head, b, h, lst))

Next == Build \/ Call \/ LoadNothing \/ LoadReadFails \/ LoadWeightsFromDn

Spec == Init /\ [][Next]_vars

\* ------------------------------------------------------------ claims: C1
\* positions after the stem that hold a shortcut record, and the j-th of them
ShortcutPos(n) == {i \in 3..Len(n) : n[i]._type = "shortcut"}
NthShortcut(n, j) ==
  CHOOSE i \in ShortcutPos(n) : Cardinality({k \in ShortcutPos(n) : k <= i}) = j
\* position just before the j-th residual block: the stem's end or a shortcut
BlockStart(n, j) == IF j = 1 THEN 2 ELSE NthShortcut(n, j - 1)

\* C1: for every record list of at least 2 records, get_darknet53_tf_format
\* returns the first 2 records as the stem entries followed by one group per
\* residual block; the j-th group holds exactly the records between the
\* (j-1)-th and the j-th shortcut in input order, and no group holds a
\* shortcut record.
C1_StemThenResidualBlocks ==
  (op = "get_darknet53_tf_format" /\ Len(net) >= 2) =>
     /\ status = "returned"
     /\ Len(out.new_net) >= 2 + Cardinality(ShortcutPos(net))
     /\ out.new_net[1] = Lone(net[1])
     /\ out.new_net[2] = Lone(net[2])
     /\ \A j \in 1..Cardinality(ShortcutPos(net)) :
          out.new_net[2 + j] =
             Block(Slice(net, BlockStart(net, j), NthShortcut(net, j) - 1))
     /\ \A e \in 3..Len(out.new_net) :
          /\ out.new_net[e].block
          /\ \A i \in 1..Len(out.new_net[e].layers) :
               out.new_net[e].layers[i]._type # "shortcut"

\* ------------------------------------------------------------ claims: C2
\* C2: when the number of weight groups handed to set_darknet_weights differs
\* from the number of target layers, the call ends in an error; it never
\* completes normally after a truncated positional pairing.
C2_CountMismatchSurfaced ==
  (op = "set_darknet_weights" /\ Len(weights_decoder) # Len(head.layers)) =>
     status = "raised"

\* ------------------------------------------------------------ claims: C3
\* C3: in load_weights_dnHead on a head of n >= 4 layers, body weight groups
\* are written only to layers other than the last 3 and head-output weights
\* only to the last 3 layers.
C3_BodyOutsideLast3 ==
  (op = "load_weights_dnHead" /\ Len(head.layers) >= 4) =>
     \A k \in 1..Len(log) :
        /\ log[k][2][1] = "body" => log[k][1] <= Len(head.layers) - 3
        /\ log[k][2][1] = "head" => log[k][1] > Len(head.layers) - 3

\* ------------------------------------------------------------ claims: C4
\* the head-output weight sets whose depth matches layer li, by list position
Matching(li) ==
  {k \in 1..Len(head_weights) :
      Depth(head_weights[k].shape) = Depth(head.layers[li].shape)}
Min(S) == CHOOSE x \in S : \A y \in S : x <= y

\* C4: after set_darknet_weights_head every weight set has been written to
\* at most one layer, and a layer with several depth-matching weight sets
\* holds the first matching one in list order.
C4_FirstMatchOnce ==
  (op = "set_darknet_weights_head" /\ status = "returned") =>
     /\ \A k \in 1..Len(head_weights) :
          Cardinality({li \in 1..Len(head.layers) :
             \E e \in 1..Len(log) : log[e] = <<li, head_weights[k].id>>}) <= 1
     /\ \A li \in 1..Len(head.layers) :
          Cardinality(Matching(li)) >= 2 =>
             head.layers[li].held = head_weights[Min(Matching(li))].id

\* ------------------------------------------------------------ claims: C5
IsYolo(n, i) == n[i]._type = "yolo"
YoloPos(n) == {i \in 1..Len(n) : IsYolo(n, i)}
NthYolo(n, j) == CHOOSE i \in YoloPos(n) : Cardinality({k \in YoloPos(n) : k <= i}) = j
\* as many yolo as non-yolo records at the positions a..b
Balanced(n, a, b) ==
  Cardinality({i \in a..b : IsYolo(n, i)}) = Cardinality({i \in a..b : ~IsYolo(n, i)})
\* the nearest non-yolo record before position q that no yolo record between
\* the two has taken
HasPartner(n, q) == \E p \in 1..(q - 1) : ~IsYolo(n, p) /\ Balanced(n, p + 1, q - 1)
Partner(n, q) ==
  CHOOSE p \in 1..(q - 1) :
     /\ ~IsYolo(n, p) /\ Balanced(n, p + 1, q - 1)
     /\ \A r \in (p + 1)..(q - 1) : ~(~IsYolo(n, r) /\ Balanced(n, r + 1, q - 1))
IdsOf(seq) == {seq[i].id : i \in 1..Len(seq)}
\* body and outputs hold every record of the input exactly once
ExactlyOnce(n, body, outputs) ==
  /\ Len(body) + Len(outputs) = Len(n)
  /\ IdsOf(body) \cup IdsOf(outputs) = 1..Len(n)

\* C5 as stated: for every decoder record list split_decoder returns an
\* output list of consecutive pairs (r, y), y a yolo record and r the record
\* immediately preceding y in the input, and a body list of every other
\* record in input order; each input record is held exactly once.
C5_PairsWithImmediatePredecessor ==
  (op = "split_decoder") =>
     /\ status = "returned"
     /\ Len(out.outputs) = 2 * Cardinality(YoloPos(net))
     /\ \A j \in 1..Cardinality(YoloPos(net)) :
          /\ out.outputs[2 * j] = net[NthYolo(net, j)]
          /\ NthYolo(net, j) > 1
          /\ out.outputs[2 * j - 1] = net[NthYolo(net, j) - 1]
     /\ out.decoder = SelectSeq(net, LAMBDA r : r.id \notin IdsOf(out.outputs))
     /\ ExactlyOnce(net, out.decoder, out.outputs)

\* C5 amended: split_decoder raises exactly when some yolo record has no
\* untaken non-yolo record before it; otherwise it returns the pairs (r, y),
\* one per yolo record in input order, where r is the nearest non-yolo record
\* before y that no earlier yolo record has taken (the record immediately
\* preceding y when that record is not a yolo record), and the body holds
\* every other record in input order; each input record is held exactly once.
C5_PairsWithNearestFreeRecord ==
  (op = "split_decoder") =>
     /\ status = "raised" <=> \E q \in YoloPos(net) : ~HasPartner(net, q)
     /\ status = "returned" =>
          /\ Len(out.outputs) = 2 * Cardinality(YoloPos(net))
          /\ \A j \in 1..Cardinality(YoloPos(net)) :
               LET q == NthYolo(net, j)
               IN  /\ out.outputs[2 * j] = net[q]
                   /\ out.outputs[2 * j - 1] = net[Partner(net, q)]
                   /\ ~IsYolo(net, q - 1) => out.outputs[2 * j - 1] = net[q - 1]
          /\ out.decoder = SelectSeq(net, LAMBDA r : r.id \notin IdsOf(out.outputs))
          /\ ExactlyOnce(net, out.decoder, out.outputs)

\* two adjacent yolo records were split and returned
C5_Witness ==
  /\ op = "split_decoder" /\ status = "returned"
  /\ \E i \in 1..(Len(net) - 1) : IsYolo(net, i) /\ IsYolo(net, i + 1)
  /\ Len(out.decoder) > 0

\* ------------------------------------------------------------ claims: C6
\* a route record of the body that does not immediately follow a maxpool
Boundary(body, i) ==
  body[i]._type = "route" /\ (i = 1 \/ body[i - 1]._type # "maxpool")
Boundaries(body) == {i \in 1..Len(body) : Boundary(body, i)}
ConvPos(body) == {i \in 1..Len(body) : body[i]._type = "convolutional"}
\* the group of the returned layers that holds the body record at position i
GroupOf(groups, body, i) ==
  {g \in 1..Len(groups) : \E k \in 1..Len(groups[g]) : groups[g][k] = body[i]}

\* C6: get_decoder_weights puts every convolutional body record in exactly
\* one group, groups in input order, two of them in the same group exactly
\* when no route that does not immediately follow a maxpool lies between
\* them; a maxpool or a route immediately following a maxpool creates no
\* group, so on a body of convolutional, route and maxpool records the groups
\* are the initial one, one per such route (a route at body index 0 has no
\* predecessor) and the trailing non-empty block.
C6_GroupsSplitAtRoutes ==
  (op = "get_decoder_weights" /\ status = "returned") =>
     LET body == out.decoder
         B == Boundaries(body)
         lastB == IF B = {} THEN 0 ELSE CHOOSE b \in B : \A c \in B : c <= b
     IN  /\ Chain(out.layers) = SelectSeq(body, LAMBDA r : r._type = "convolutional")
         /\ \A p \in ConvPos(body) : Cardinality(GroupOf(out.layers, body, p)) = 1
         /\ \A p, q \in ConvPos(body) :
              p < q => ((GroupOf(out.layers, body, p) = GroupOf(out.layers, body, q))
                          <=> ~\E b \in B : p < b /\ b < q)
         /\ (\A i \in 1..Len(body) : body[i]._type \in {"convolutional", "route", "maxpool"})
              => Len(out.layers) = 1 + Cardinality(B)
                    + (IF \E p \in ConvPos(body) : p > lastB THEN 1 ELSE 0)

\* ------------------------------------------------------------ claims: C7
NonMaxpool(n) == SelectSeq(Slice(n, 5, Len(n)), LAMBDA r : r._type # "maxpool")

\* C7: get_darknet20_tf_format returns the first 5 records as the stem, each
\* later maxpool record as a standalone entry, the other records grouped two
\* at a time in the order read, and the entries in the relative order in
\* which their records appear in the input.
C7_EntriesInInputOrder ==
  (op = "get_darknet20_tf_format" /\ Len(net) >= 5) =>
     /\ status = "returned"
     /\ \A i \in 1..5 : out.new_net[i] = Lone(net[i])
     /\ \A e \in 6..Len(out.new_net) :
          \/ ~out.new_net[e].block /\ out.new_net[e].layers[1]._type = "maxpool"
          \/ /\ out.new_net[e].block /\ Len(out.new_net[e].layers) = 2
             /\ \A k \in 1..2 : out.new_net[e].layers[k]._type # "maxpool"
     /\ \A i \in 6..Len(net) :
          net[i]._type = "maxpool" => \E e \in 6..Len(out.new_net) : out.new_net[e] = Lone(net[i])
     /\ LET paired == Chain([e \in 1..(Len(out.new_net) - 5) |->
                          IF out.new_net[e + 5].block THEN out.new_net[e + 5].layers
                          ELSE <<>>])
        IN  /\ paired = Slice(NonMaxpool(net), 0, Len(paired))
            /\ Len(paired) >= Len(NonMaxpool(net)) - 1
     /\ \A e, f \in 1..Len(out.new_net) :
          e < f => \A k \in 1..Len(out.new_net[e].layers) :
                      out.new_net[e].layers[k].id < out.new_net[f].layers[1].id

\* ------------------------------------------------------------ claims: C8
\* C8: for a block of n >= 1 layers of 5 weights each, interleve_weights
\* returns 5n weights: the layers' first three weights in layer order, then
\* the layers' last two weights in layer order; for an empty block, the empty
\* list.
C8_TopsThenBottoms ==
  (op = "interleve_weights" /\ \A i \in 1..Len(net) : net[i].nw = 5) =>
     LET n == Len(net)
     IN  /\ Len(out.weights) = 5 * n
         /\ \A i \in 1..n :
              /\ \A k \in 1..3 : out.weights[3 * (i - 1) + k] = <<net[i].id, k>>
              /\ \A k \in 1..2 : out.weights[3 * n + 2 * (i - 1) + k] = <<net[i].id, 3 + k>>
         /\ n = 0 => out.weights = <<>>

\* a block of at least two normalized layers was interleaved
C8_Witness ==
  /\ op = "interleve_weights" /\ status = "returned"
  /\ Len(net) >= 2 /\ \A i \in 1..Len(net) : net[i].nw = 5
  /\ Len(out.weights) = 5 * Len(net)

\* ------------------------------------------------------------ claims: C9
BackboneEvent(e) == e[2][1] \in {"encoder", "freeze_backbone"}
HeadEvent(e) == e[2][1] \in {"body", "head", "freeze_head"}
LoadReturns == op' = "load_weights_from_dn" /\ status' = "returned"

C9_Step ==
  /\ LoadReturns =>
       /\ args'.dn2tf_backbone => ~backbone'.trainable
       /\ args'.dn2tf_head => ~head'.trainable
       /\ ~args'.dn2tf_backbone => backbone' = backbone
       /\ ~args'.dn2tf_head => head' = head
       /\ \A i, j \in DOMAIN log' :
            BackboneEvent(log'[i]) /\ HeadEvent(log'[j]) => i < j
  /\ ~backbone.trainable => ~backbone'.trainable
  /\ ~head.trainable => ~head'.trainable

\* C9: when load_weights_from_dn returns, a requested backbone is frozen and a
\* requested head is frozen, a component that was not requested keeps its
\* trainable flag and its weights, every write to the backbone and its freeze
\* come before every write to the head, and no build, call or load step makes
\* a frozen component trainable again.
C9_LoadFreezesInOrder == [][C9_Step]_vars

\* a load of both components has returned: weights were written to the
\* backbone, it was frozen, and the head was frozen after it
C9_Witness ==
  /\ op = "load_weights_from_dn" /\ status = "returned"
  /\ args.dn2tf_backbone /\ args.dn2tf_head
  /\ ~backbone.trainable /\ ~head.trainable
  /\ \E i, j, k \in DOMAIN log :
       /\ i < j /\ j < k
       /\ log[i][2][1] = "encoder"
       /\ log[j][2][1] = "freeze_backbone"
       /\ log[k][2][1] = "freeze_head"

\* ----------------------------------------------------------- claims: C10
NoOverrides ==
  /\ op = "__init__"
  /\ args.boxes = None /\ args.masks = None /\ args.path_scales = None
  /\ args.model \in {"regular", "spp", "tiny"}

\* the (key, position) places of the mask groups that hold anchor index a
MaskPlaces(masks, a) ==
  {p \in UNION {{<<k, i>> : i \in DOMAIN masks[k]} : k \in DOMAIN masks} :
      masks[p[1]][p[2]] = a}

\* C10: constructed without boxes, masks or path_scales, regular and spp get
\* split index 76, 9 anchors, mask keys 1024/512/256 and strides 32/16/8, tiny
\* gets split index 14, 6 anchors, mask keys 1024/256 and strides 32/8; every
\* anchor index is in exactly one mask group and the masks and the strides
\* have the same keys.
C10_VariantDefaults ==
  NoOverrides =>
    LET three == args.model \in {"regular", "spp"}
    IN  /\ yolo.constructed
        /\ yolo._encoder_decoder_split_location = Some(IF three THEN 76 ELSE 14)
        /\ Len(yolo._boxes.val) = IF three THEN 9 ELSE 6
        /\ DOMAIN yolo._masks.val
              = IF three THEN {"1024", "512", "256"} ELSE {"1024", "256"}
        /\ {yolo._path_scales.val[k] : k \in DOMAIN yolo._path_scales.val}
              = IF three THEN {32, 16, 8} ELSE {32, 8}
        /\ \A a \in 0..(Len(yolo._boxes.val) - 1) :
              Cardinality(MaskPlaces(yolo._masks.val, a)) = 1
        /\ DOMAIN yolo._masks.val = DOMAIN yolo._path_scales.val

\* the tiny variant was constructed with none of the three overrides
C10_Witness ==
  /\ NoOverrides /\ status = "returned"
  /\ args.model = "tiny"
  /\ Len(yolo._boxes.val) = 6
  /\ yolo._masks.val = MasksTiny

\* ======================================================= DarkRouteProcess
\* the weight-loading and assembler variables, unused by the components below
loaderVars == <<net, head, weights_decoder, head_weights, log, yolo, backbone>>
NoLoader ==
  /\ net = <<>> /\ head = NoModel /\ weights_decoder = <<>> /\ head_weights = <<>>
  /\ log = <<>> /\ yolo = NoYolo /\ backbone = NoModel

MaxReps == 3

DarkConv(filters, kernel_size) ==
  [kind |-> "DarkConv", filters |-> filters, kernel_size |-> kernel_size]
DarkSpp(sizes) == [kind |-> "DarkSpp", sizes |-> sizes]

_get_layer_list(repetitions, insert_spp) ==
  [i \in 1..repetitions |->
     IF repetitions > 2 /\ insert_spp /\ i = 2 THEN "spp" ELSE "block"]

\* _block with the 3x3 convolution before the 1x1 convolution
_block_restoring_first(filters) == <<DarkConv(filters, 3), DarkConv(filters \div 2, 1)>>

_block(filters) == <<DarkConv(filters \div 2, 1), DarkConv(filters, 3)>>
_spp(filters) == <<DarkConv(filters \div 2, 1), DarkSpp(<<5, 9, 13>>)>>

\* DarkRouteProcess.__init__
DarkRouteProcessInit(a) ==
  [class        |-> "DarkRouteProcess",
   _filters     |-> a.filters \div a.mod,
   _repetitions |-> a.repetitions,
   _lim         |-> a.repetitions * 2,
   _insert_spp  |-> a.insert_spp,
   layer_list   |-> _get_layer_list(a.repetitions, a.insert_spp),
   built        |-> FALSE,
   layers       |-> <<>>]

RECURSIVE ExtendLayers(_, _, _, _)
\* the loop of build: one extend per descriptor
ExtendLayers(layers, layer_list, filters, k) ==
  IF k > Len(layer_list) THEN layers
  ELSE ExtendLayers(layers \o (IF layer_list[k] = "block" THEN _block(filters)
                                                           ELSE _spp(filters)),
                    layer_list, filters, k + 1)

\* build without the reset of self.layers
DarkRouteProcess_build_extending(self) ==
  [self EXCEPT !.layers = ExtendLayers(self.layers, self.layer_list, self._filters, 1),
               !.built = TRUE]

DarkRouteProcess_build(self) ==
  [self EXCEPT !.layers = ExtendLayers(<<>>, self.layer_list, self._filters, 1),
               !.built = TRUE]

\* a tensor is its channel depth and the positions of the stages it went
\* through; DarkConv gives its filter count, DarkSpp concatenates the three
\* pooled outputs and its input
Tensor(depth) == [depth |-> depth, trace |-> <<>>]
ApplyLayer(layer, x, i) ==
  [depth |-> IF layer.kind = "DarkConv" THEN layer.filters ELSE 4 * x.depth,
   trace |-> Append(x.trace, i)]

RECURSIVE CallLoop(_, _, _, _)
\* while i < self._lim; i is 0-based as in the code
CallLoop(self, x_prev, x, i) ==
  IF i >= self._lim THEN [raised |-> FALSE, x_prev |-> x_prev, x |-> x]
  ELSE IF i + 1 > Len(self.layers) THEN [raised |-> TRUE]
  ELSE CallLoop(self, x, ApplyLayer(self.layers[i + 1], x, i + 1), i + 1)

\* call before build finds no self.layers and raises
DarkRouteProcess_call(self, inputs) ==
  IF ~self.built THEN [raised |-> TRUE] ELSE CallLoop(self, inputs, inputs, 0)

RouteFilters == {4, 6, 8}
RouteMods == {1, 2}
RouteInputDepths == {4, 8}
NoInputs == [depth |-> 0, trace |-> <<>>]
RouteArgs ==
  [filters : RouteFilters, mod : RouteMods, repetitions : 1..MaxReps,
   insert_spp : BOOLEAN, inputs : {NoInputs}]

InitRoute ==
  /\ NoLoader
  /\ op = "__init__" /\ status = "returned" /\ out = NoOut
  /\ args \in RouteArgs
  /\ obj = DarkRouteProcessInit(args)

RouteBuild ==
  /\ op' = "build" /\ status' = "returned"
  /\ obj' = DarkRouteProcess_build(obj)
  /\ UNCHANGED <<out, args>>
  /\ UNCHANGED loaderVars

RouteCall ==
  /\ \E d \in RouteInputDepths :
       /\ args' = [args EXCEPT !.inputs = Tensor(d)]
       /\ out' = DarkRouteProcess_call(obj, Tensor(d))
  /\ op' = "call"
  /\ status' = IF out'.raised THEN "raised" ELSE "returned"
  /\ UNCHANGED obj
  /\ UNCHANGED loaderVars

SpecRoute == InitRoute /\ [][RouteBuild \/ RouteCall]_vars

\* ----------------------------------------------------------- claims: C11
RouteCalled == obj.class = "DarkRouteProcess" /\ op = "call" /\ status = "returned"
InSequence(x, n) == x.trace = [i \in 1..n |-> i]

\* C11 as stated: for every even filters value the two returned tensors have
\* exactly half of, and all of, filters // mod channels.
C11_HalfAndFullOfEvenFilters ==
  (RouteCalled /\ args.filters % 2 = 0) =>
     /\ InSequence(out.x_prev, 2 * args.repetitions - 1)
     /\ InSequence(out.x, 2 * args.repetitions)
     /\ 2 * out.x_prev.depth = args.filters \div args.mod
     /\ out.x.depth = args.filters \div args.mod

\* C11: call applies the 2 * repetitions stages in sequence and returns the
\* output after 2 * repetitions - 1 stages and the output after all of them;
\* their depths are (filters // mod) // 2 and filters // mod, the first being
\* exactly half of the second whenever filters // mod is even.
C11_FlooredHalfAndFull ==
  RouteCalled =>
     /\ InSequence(out.x_prev, 2 * args.repetitions - 1)
     /\ InSequence(out.x, 2 * args.repetitions)
     /\ out.x_prev.depth = (args.filters \div args.mod) \div 2
     /\ out.x.depth = args.filters \div args.mod
     /\ (args.filters \div args.mod) % 2 = 0 => 2 * out.x_prev.depth = out.x.depth

\* a call on a built stack with a pyramid-pooling stage and an odd
\* filters // mod has returned
C11_Witness ==
  /\ RouteCalled
  /\ args.repetitions = 3 /\ args.insert_spp
  /\ args.filters = 6 /\ args.mod = 2
  /\ out.x_prev.depth = 1 /\ out.x.depth = 3

\* ----------------------------------------------------------- claims: C12
\* C12: once built, however often, the stack holds 2 * repetitions stages;
\* positions 2 and 3 are (1x1 convolution, pyramid pooling) exactly when
\* repetitions > 2 and insert_spp, and every other descriptor gives
\* (1x1 convolution, 3x3 convolution).
C12_StagePlan ==
  (obj.class = "DarkRouteProcess" /\ obj.built) =>
     LET spp == args.repetitions > 2 /\ args.insert_spp
     IN  /\ Len(obj.layers) = 2 * args.repetitions
         /\ \A d \in 0..(args.repetitions - 1) :
              LET first  == obj.layers[2 * d + 1]
                  second == obj.layers[2 * d + 2]
              IN  /\ first.kind = "DarkConv" /\ first.kernel_size = 1
                  /\ IF spp /\ d = 1
                     THEN second.kind = "DarkSpp"
                     ELSE second.kind = "DarkConv" /\ second.kernel_size = 3

\* a stack of 3 repetitions with pyramid pooling was built again after a
\* call and holds the pooling stage at position 3
C12_Witness ==
  /\ obj.class = "DarkRouteProcess" /\ obj.built /\ op = "build"
  /\ args.inputs # NoInputs
  /\ args.insert_spp /\ args.repetitions = 3
  /\ obj.layers[4].kind = "DarkSpp"

\* ============================================================== iou_utils
\* Boxes lie on an integer grid.  A center-form box is <<x, y, w, h>>; corner
\* coordinates are kept in half grid units so that x - w / 2 is exact, and
\* areas are therefore in quarter units.  A quotient is a pair <<n, d>> with
\* d > 0, compared by cross-multiplication.
MaxCoord == 2
MaxSide == 2

Max2(a, b) == IF a >= b THEN a ELSE b
Min2(a, b) == IF a <= b THEN a ELSE b

\* box_utils._xcycwh_to_xyxy: <<x_min, y_min, x_max, y_max>>
_xcycwh_to_xyxy(box) ==
  <<2 * box[1] - box[3], 2 * box[2] - box[4], 2 * box[1] + box[3], 2 * box[2] + box[4]>>

\* box_utils._get_area of a (min-corner, max-corner) pair
_get_area(mins, maxes) == (maxes[1] - mins[1]) * (maxes[2] - mins[2])

\* box_utils._intersection_and_union of two corner-form boxes
_intersection_and_union(box1, box2) ==
  LET iw == Max2(Min2(box1[3], box2[3]) - Max2(box1[1], box2[1]), 0)
      ih == Max2(Min2(box1[4], box2[4]) - Max2(box1[2], box2[2]), 0)
      intersection == iw * ih
      a1 == _get_area(<<box1[1], box1[2]>>, <<box1[3], box1[4]>>)
      a2 == _get_area(<<box2[1], box2[2]>>, <<box2[3], box2[4]>>)
  IN  [intersection |-> intersection, union |-> a1 + a2 - intersection]

\* tf.math.divide_no_nan and tf.clip_by_value(q, 0.0, 1.0)
divide_no_nan(x, y) == IF y = 0 THEN <<0, 1>> ELSE IF y < 0 THEN <<-x, -y>> ELSE <<x, y>>
clip_by_value(q) == IF q[1] < 0 THEN <<0, 1>> ELSE IF q[1] > q[2] THEN <<1, 1>> ELSE q
QSub(p, q) == <<p[1] * q[2] - q[1] * p[2], p[2] * q[2]>>
QEq(p, q) == p[1] * q[2] = q[1] * p[2]
QLeq(p, q) == p[1] * q[2] <= q[1] * p[2]

\* compute_iou without the conversion to corner form
compute_iou_no_conversion(box1, box2) ==
  LET iu == _intersection_and_union(box1, box2)
  IN  clip_by_value(divide_no_nan(iu.intersection, iu.union))

compute_iou(box1, box2) ==
  LET iu == _intersection_and_union(_xcycwh_to_xyxy(box1), _xcycwh_to_xyxy(box2))
  IN  clip_by_value(divide_no_nan(iu.intersection, iu.union))

\* compute_giou adding the enclosing-box term instead of subtracting it
compute_giou_adding(box1, box2) ==
  LET b1 == _xcycwh_to_xyxy(box1)
      b2 == _xcycwh_to_xyxy(box2)
      iu == _intersection_and_union(b1, b2)
      iou == clip_by_value(divide_no_nan(iu.intersection, iu.union))
      c  == _get_area(<<Min2(b1[1], b2[1]), Min2(b1[2], b2[2])>>,
                      <<Max2(b1[3], b2[3]), Max2(b1[4], b2[4])>>)
      pen == divide_no_nan(c - iu.union, c)
  IN  [iou |-> iou, giou |-> QSub(iou, <<-pen[1], pen[2]>>), union |-> iu.union, c |-> c]

\* compute_giou; union and c are carried along for reference
compute_giou(box1, box2) ==
  LET b1 == _xcycwh_to_xyxy(box1)
      b2 == _xcycwh_to_xyxy(box2)
      iu == _intersection_and_union(b1, b2)
      iou == clip_by_value(divide_no_nan(iu.intersection, iu.union))
      c  == _get_area(<<Min2(b1[1], b2[1]), Min2(b1[2], b2[2])>>,
                      <<Max2(b1[3], b2[3]), Max2(b1[4], b2[4])>>)
      pen == divide_no_nan(c - iu.union, c)
  IN  [iou |-> iou, giou |-> QSub(iou, pen), union |-> iu.union, c |-> c]

GridBoxes == (0..MaxCoord) \X (0..MaxCoord) \X (0..MaxSide) \X (0..MaxSide)

InitIou ==
  /\ NoLoader /\ obj = NoObj
  /\ op = "none" /\ status = "ready" /\ out = NoOut
  /\ args \in [box1 : GridBoxes, box2 : GridBoxes]

CallComputeIou ==
  /\ op' = "compute_iou" /\ status' = "returned"
  /\ out' = [raised |-> FALSE, iou |-> compute_iou(args.box1, args.box2)]
  /\ UNCHANGED <<args, obj>>
  /\ UNCHANGED loaderVars

CallComputeGiou ==
  /\ op' = "compute_giou" /\ status' = "returned"
  /\ out' = [raised |-> FALSE] @@ compute_giou(args.box1, args.box2)
  /\ UNCHANGED <<args, obj>>
  /\ UNCHANGED loaderVars

SpecIou == InitIou /\ [][CallComputeIou \/ CallComputeGiou]_vars

\* ----------------------------------------------------------- claims: C13
\* the grid cells two boxes share have positive area
Overlap(b1, b2) ==
  /\ Min2(2 * b1[1] + b1[3], 2 * b2[1] + b2[3]) > Max2(2 * b1[1] - b1[3], 2 * b2[1] - b2[3])
  /\ Min2(2 * b1[2] + b1[4], 2 * b2[2] + b2[4]) > Max2(2 * b1[2] - b1[4], 2 * b2[2] - b2[4])
One == <<1, 1>>
Zero == <<0, 1>>
IouCalled == op = "compute_iou" /\ status = "returned"

\* C13 as stated: also for zero-width and zero-height boxes compute_iou(b, b)
\* is 1; without overlap the result is 0; the result is symmetric and lies
\* in [0, 1].
C13_IdenticalBoxesGiveOne ==
  IouCalled =>
     /\ args.box1 = args.box2 => QEq(out.iou, One)
     /\ ~Overlap(args.box1, args.box2) => QEq(out.iou, Zero)
     /\ QEq(out.iou, compute_iou(args.box2, args.box1))
     /\ QLeq(Zero, out.iou) /\ QLeq(out.iou, One)

\* C13: compute_iou(b, b) is 1 when b has positive width and height and 0
\* when its width or height is zero; without overlap the result is 0; the
\* result is symmetric and lies in [0, 1].
C13_IdenticalBoxesOfPositiveArea ==
  IouCalled =>
     /\ args.box1 = args.box2 =>
          QEq(out.iou, IF args.box1[3] > 0 /\ args.box1[4] > 0 THEN One ELSE Zero)
     /\ ~Overlap(args.box1, args.box2) => QEq(out.iou, Zero)
     /\ QEq(out.iou, compute_iou(args.box2, args.box1))
     /\ QLeq(Zero, out.iou) /\ QLeq(out.iou, One)

\* compute_iou ran on two different boxes that overlap in part
C13_Witness ==
  /\ IouCalled
  /\ args.box1 # args.box2 /\ Overlap(args.box1, args.box2)
  /\ ~QEq(out.iou, Zero) /\ ~QEq(out.iou, One)

\* ----------------------------------------------------------- claims: C14
\* C14: the giou compute_giou returns is at most the iou it returns, and the
\* two are equal exactly when the union area equals the area of the smallest
\* enclosing box or that box has zero area.
C14_GiouAtMostIou ==
  (op = "compute_giou" /\ status = "returned") =>
     /\ QLeq(out.giou, out.iou)
     /\ QEq(out.giou, out.iou) <=> (out.union = out.c \/ out.c = 0)

\* compute_giou ran on two boxes with a gap between them: giou is below iou
C14_Witness ==
  /\ op = "compute_giou" /\ status = "returned"
  /\ ~Overlap(args.box1, args.box2)
  /\ out.c > out.union /\ out.union > 0
  /\ ~QEq(out.giou, out.iou) /\ out.giou[1] < 0

\* ============================================================= YoloParser
MaxImage == 4        \* image_w, image_h of the constructor
MaxDownScale == 3    \* net_down_scale
MaxInstances == 3    \* max_num_instances
MaxObjects == 3      \* ground-truth instances of a record

\* the names YOLO_Detection_Input.py defines or imports (lines 7-22, 151)
DetectionModuleNames ==
  {"tf", "Parser", "_get_best_anchor", "random_jitter_boxes", "random_translate",
   "random_flip", "pad_max_instances", "_xcycwh_to_xyxy", "_xcycwh_to_yxyx",
   "_yxyx_to_xcycwh", "YoloParser", "YoloPostProcessing"}
\* the attributes a YoloParser has when line 63 runs; the Parser base holds
\* no data of its own
AttrsAtLine63 == {"_net_down_scale", "_image_w"}

\* YoloParser.__init__; NoObj when it raises
YoloParserInit(a) ==
  IF ~a.image_h.some /\ "image_w" \notin AttrsAtLine63 THEN NoObj
  ELSE [class              |-> "YoloParser",
        _net_down_scale    |-> a.net_down_scale,
        _image_w           |-> (a.image_w \div a.net_down_scale) * a.net_down_scale,
        _image_h           |-> IF ~a.image_h.some
                               THEN (a.image_w \div a.net_down_scale) * a.net_down_scale
                               ELSE (a.image_h.val \div a.net_down_scale) * a.net_down_scale,
        _max_process_size  |-> a.max_process_size,
        _jitter_im         |-> a.jitter_im,
        _jitter_boxes      |-> a.jitter_boxes,
        _max_num_instances |-> a.max_num_instances,
        _random_flip       |-> a.random_flip]

\* a ground-truth box: the instance it belongs to and the transforms it went
\* through; the all-zero pad row is ZeroBox
GtBox(i) == [id |-> i, center_form |-> FALSE, jittered |-> FALSE, flipped |-> FALSE,
             translated |-> FALSE]
ZeroBox == [id |-> 0, center_form |-> FALSE, jittered |-> FALSE, flipped |-> FALSE,
            translated |-> FALSE]
MapBoxes(boxes, field) == [i \in 1..Len(boxes) |-> [boxes[i] EXCEPT ![field] = TRUE]]
_yxyx_to_xcycwh(boxes) == MapBoxes(boxes, "center_form")
random_jitter_boxes(boxes) == MapBoxes(boxes, "jittered")
\* one anchor index per box
_get_best_anchor(boxes) == [i \in 1..Len(boxes) |-> 1]

\* preprocessing_ops.pad_max_instances: pad or truncate to max_count entries
pad_max_instances(value, max_count, pad_value) ==
  [i \in 1..max_count |-> IF i <= Len(value) THEN value[i] ELSE pad_value]

CastInt32(b) == IF b THEN 1 ELSE 0

\* the label dict of lines 108-118 and 138-148; shape is tf.shape of the
\* decoded image and python shape[k] is shape[k + 1] here
Labels(self, data, shape, boxes, best_anchors, class_pad) ==
  [source_id      |-> data.id,
   bbox           |-> pad_max_instances(boxes, self._max_num_instances, ZeroBox),
   classes        |-> pad_max_instances(data.label, self._max_num_instances, class_pad),
   area           |-> pad_max_instances(data.area, self._max_num_instances, 0),
   is_crowd       |-> pad_max_instances([i \in 1..Len(data.is_crowd) |->
                                            CastInt32(data.is_crowd[i])],
                                        self._max_num_instances, 0),
   best_anchors   |-> pad_max_instances(best_anchors, self._max_num_instances, 0),
   width          |-> shape[2],
   height         |-> shape[3],
   num_detections |-> Len(data.label)]

\* _parse_train_data; flip is the draw random_flip makes
_parse_train_data(self, data, flip) ==
  LET shape == <<data.image.h, data.image.w, 3>>
      b0 == _yxyx_to_xcycwh(data.bbox)
      b1 == IF self._jitter_boxes # 0 THEN random_jitter_boxes(b0) ELSE b0
      best_anchors == _get_best_anchor(b1)
      b2 == IF self._random_flip /\ flip THEN MapBoxes(b1, "flipped") ELSE b1
      b3 == IF self._jitter_im # 0 THEN MapBoxes(b2, "translated") ELSE b2
  IN  [raised |-> FALSE,
       image  |-> [h |-> self._max_process_size, w |-> self._max_process_size],
       labels |-> Labels(self, data, shape, b3, best_anchors, -1)]

\* _parse_eval_data: line 130 calls _scale_image, a name the module neither
\* defines nor imports
_parse_eval_data(self, data) ==
  LET shape == <<data.image.h, data.image.w, 3>>
      boxes == _yxyx_to_xcycwh(data.bbox)
  IN  IF "_scale_image" \notin DetectionModuleNames THEN [raised |-> TRUE]
      ELSE [raised |-> FALSE,
            image  |-> [h |-> self._image_h, w |-> self._image_w],
            labels |-> Labels(self, data, shape, boxes, _get_best_anchor(boxes), 0)]

NoData == [id |-> 0]
ClassIds == {0, 7}
ImageShapes == {[h |-> 4, w |-> 6], [h |-> 5, w |-> 5]}
Records ==
  {[id |-> 1, image |-> im, label |-> lb,
    bbox |-> [i \in 1..Len(lb) |-> GtBox(i)],
    area |-> [i \in 1..Len(lb) |-> 10 * i],
    is_crowd |-> [i \in 1..Len(lb) |-> i = 2]] :
      im \in ImageShapes, lb \in SeqsUpTo(ClassIds, MaxObjects)}

YoloParserArgs ==
  [image_w : 1..MaxImage, image_h : {None} \cup {Some(h) : h \in 1..MaxImage},
   net_down_scale : 1..MaxDownScale, max_num_instances : 1..MaxInstances,
   random_flip : BOOLEAN, jitter_im : {0, 1}, jitter_boxes : {0, 1},
   max_process_size : {8}, data : {NoData}]

InitYoloParser ==
  /\ NoLoader /\ obj = NoObj
  /\ op = "none" /\ status = "ready" /\ out = NoOut
  /\ args \in YoloParserArgs

YoloParserConstruct ==
  /\ op = "none"
  /\ op' = "__init__"
  /\ obj' = YoloParserInit(args)
  /\ status' = IF obj' = NoObj THEN "raised" ELSE "returned"
  /\ UNCHANGED <<out, args>>
  /\ UNCHANGED loaderVars

ParseTrainData ==
  /\ obj # NoObj
  /\ \E data \in Records, flip \in BOOLEAN :
       /\ args' = [args EXCEPT !.data = data]
       /\ out' = _parse_train_data(obj, data, flip)
  /\ op' = "_parse_train_data"
  /\ status' = IF out'.raised THEN "raised" ELSE "returned"
  /\ UNCHANGED obj
  /\ UNCHANGED loaderVars

ParseEvalData ==
  /\ obj # NoObj
  /\ \E data \in Records :
       /\ args' = [args EXCEPT !.data = data]
       /\ out' = _parse_eval_data(obj, data)
  /\ op' = "_parse_eval_data"
  /\ status' = IF out'.raised THEN "raised" ELSE "returned"
  /\ UNCHANGED obj
  /\ UNCHANGED loaderVars

SpecYoloParser ==
  InitYoloParser /\ [][YoloParserConstruct \/ ParseTrainData \/ ParseEvalData]_vars

\* ----------------------------------------------------------- claims: C15
Parsed == op \in {"_parse_train_data", "_parse_eval_data"}
PadsWith(value, n, pad) ==
  /\ Len(value) = args.max_num_instances
  /\ \A i \in (n + 1)..Len(value) : value[i] = pad

\* C15: for a record of n <= max_num_instances instances both parse paths
\* return a label whose classes are the n input labels followed by -1
\* (training) or 0 (evaluation), whose bbox pad rows are 0, whose bbox,
\* classes, area, is_crowd and best_anchors all have max_num_instances
\* entries, and whose num_detections is n.
C15_PaddedLabels ==
  (Parsed /\ Len(args.data.label) <= args.max_num_instances) =>
     LET n == Len(args.data.label)
     IN  /\ status = "returned"
         /\ PadsWith(out.labels.classes, n, IF op = "_parse_train_data" THEN -1 ELSE 0)
         /\ \A i \in 1..n : out.labels.classes[i] = args.data.label[i]
         /\ PadsWith(out.labels.bbox, n, ZeroBox)
         /\ Len(out.labels.area) = args.max_num_instances
         /\ Len(out.labels.is_crowd) = args.max_num_instances
         /\ Len(out.labels.best_anchors) = args.max_num_instances
         /\ out.labels.num_detections = n

\* ----------------------------------------------------------- claims: C16
\* C16: the label a parse path returns has width W and height H of the
\* decoded H x W x 3 image.
C16_WidthAndHeightOfDecodedImage ==
  (Parsed /\ status = "returned") =>
     /\ out.labels.width = args.data.image.w
     /\ out.labels.height = args.data.image.h

\* ----------------------------------------------------------- claims: C17
\* C17: construction stores a target width and height that are the largest
\* multiples of net_down_scale not above image_w and image_h, and with
\* image_h = None it completes with the height equal to the snapped width.
C17_SnappedTargetSize ==
  (op = "__init__") =>
     /\ status = "returned"
     /\ obj._image_w % args.net_down_scale = 0
     /\ 0 <= args.image_w - obj._image_w
     /\ args.image_w - obj._image_w < args.net_down_scale
     /\ IF args.image_h.some
        THEN /\ obj._image_h % args.net_down_scale = 0
             /\ 0 <= args.image_h.val - obj._image_h
             /\ args.image_h.val - obj._image_h < args.net_down_scale
        ELSE obj._image_h = obj._image_w

\* ===================================================== YoloPostProcessing
\* tf.random.uniform([]) and pct_rand are held in tenths
Tenths == 0..9
PctRands == {0, 3, 10}
\* tf.random.uniform([], minval = 10, maxval = 20, dtype = tf.int32)
RandScales == 10..19

YoloPostProcessingInit(a) ==
  [class           |-> "YoloPostProcessing",
   _net_down_scale |-> a.net_down_scale,
   _image_w        |-> a.image_w,
   _image_h        |-> a.image_h,
   _fixed_size     |-> a.fixed_size,
   _pct_rand       |-> a.pct_rand]

\* postprocess_fn that resamples the grid size in fixed-size mode too
postprocess_fn_ignoring_fixed_size(self, image, label, u, r) ==
  LET do_scale == u > 10 - self._pct_rand
      randscale == IF do_scale THEN r ELSE self._image_w \div self._net_down_scale
  IN  [raised |-> FALSE,
       image  |-> [h |-> randscale * self._net_down_scale,
                   w |-> randscale * self._net_down_scale],
       label  |-> label]

\* postprocess_fn; u and r are the two random draws
postprocess_fn(self, image, label, u, r) ==
  LET do_scale == u > 10 - self._pct_rand
      randscale == IF ~self._fixed_size /\ do_scale THEN r
                   ELSE self._image_w \div self._net_down_scale
  IN  [raised |-> FALSE,
       image  |-> [h |-> randscale * self._net_down_scale,
                   w |-> randscale * self._net_down_scale],
       label  |-> label]

\* configurations whose grid has at least one cell
PostArgs ==
  {a \in [image_w : 1..MaxImage, image_h : 1..MaxImage,
           net_down_scale : 1..MaxDownScale, fixed_size : BOOLEAN,
           pct_rand : PctRands, data : {NoData}] :
      a.image_w >= a.net_down_scale}
PostLabels == {[source_id |-> 1, num_detections |-> n] : n \in 0..1}

InitPost ==
  /\ NoLoader
  /\ op = "__init__" /\ status = "returned" /\ out = NoOut
  /\ args \in PostArgs
  /\ obj = YoloPostProcessingInit(args)

PostprocessFn ==
  /\ \E image \in ImageShapes, label \in PostLabels, u \in Tenths, r \in RandScales :
       /\ args' = [args EXCEPT !.data = [image |-> image, label |-> label,
                                          do_scale |-> u > 10 - obj._pct_rand]]
       /\ out' = postprocess_fn(obj, image, label, u, r)
  /\ op' = "postprocess_fn" /\ status' = "returned"
  /\ UNCHANGED obj
  /\ UNCHANGED loaderVars

SpecPost == InitPost /\ [][PostprocessFn]_vars

\* ----------------------------------------------------------- claims: C18
C18_Step ==
  (op' = "postprocess_fn") =>
     LET side == out'.image.h
         g    == side \div args'.net_down_scale
     IN  /\ status' = "returned"
         /\ out'.label = args'.data.label
         /\ out'.image.w = side /\ side = g * args'.net_down_scale
         /\ IF args'.fixed_size \/ ~args'.data.do_scale
            THEN g = args'.image_w \div args'.net_down_scale
            ELSE 10 <= g /\ g < 20
         /\ (args'.fixed_size /\ op = "postprocess_fn") => out'.image = out.image

MaxOut == 3     \* the sides of output_size

\* an image is its height, width, element type, the value of one pixel as a
\* quotient, and the content-changing augmentations it went through
Image(h, w, px) == [h |-> h, w |-> w, dtype |-> "uint8", px |-> <<px, 1>>, ops |-> {}]
Cast(image, dtype) == [image EXCEPT !.dtype = dtype]
DivBy(image, k) == [image EXCEPT !.px = <<@[1], @[2] * k>>]
Aug(image, name) == [image EXCEPT !.ops = @ \cup {name}]
\* tf.image.resize_with_pad: letterbox to target_height x target_width
resize_with_pad(image, target_width, target_height) ==
  [image EXCEPT !.h = target_height, !.w = target_width]
\* tf.image.random_brightness: adds delta quarters to every pixel
random_brightness(image, delta) ==
  [image EXCEPT !.px = <<4 * @[1] + delta * @[2], 4 * @[2]>>]
ClipImage(image) == [image EXCEPT !.px = clip_by_value(@)]
\* tf.one_hot(label, num_classes)
one_hot(label, num_classes) == [k \in 1..num_classes |-> IF k = label + 1 THEN 1 ELSE 0]

SupportedDtypes == {"float32", "float16", "bfloat16"}

\* Classification_Parser.__init__; NoObj when it raises ValueError
Classification_ParserInit(a) ==
  IF a.dtype \notin SupportedDtypes THEN NoObj
  ELSE [class                |-> "Classification_Parser",
        _output_size         |-> a.output_size,
        _num_classes         |-> a.num_classes,
        _aug_rand_saturation |-> a.aug_rand_saturation,
        _aug_rand_brightness |-> a.aug_rand_brightness,
        _aug_rand_zoom       |-> a.aug_rand_zoom,
        _aug_rand_rotate     |-> a.aug_rand_rotate,
        _aug_rand_hue        |-> a.aug_rand_hue,
        _aug_rand_aspect     |-> a.aug_rand_aspect,
        _dtype               |-> a.dtype]

\* lines 116-120 and 136-140
ClassificationLabel(self, decoded_tensors) ==
  IF "objects" \in DOMAIN decoded_tensors THEN decoded_tensors.objects
  ELSE one_hot(decoded_tensors.label, self._num_classes)

\* Classification_Parser._parse_train_data; delta is the brightness draw.
\* python _output_size[k] is _output_size[k + 1] here
Classification_Parser_parse_train_data(self, decoded_tensors, delta) ==
  LET i0 == DivBy(Cast(decoded_tensors.image, "float32"), 255)
      i1 == IF self._aug_rand_aspect THEN Aug(i0, "aspect") ELSE i0
      i2 == IF self._aug_rand_zoom THEN Aug(i1, "zoom") ELSE i1
      i3 == resize_with_pad(i2, self._output_size[1], self._output_size[2])
      i4 == IF self._aug_rand_rotate THEN Aug(i3, "rotate") ELSE i3
      i5 == IF self._aug_rand_brightness THEN random_brightness(i4, delta) ELSE i4
      i6 == IF self._aug_rand_saturation THEN Aug(i5, "saturation") ELSE i5
      i7 == IF self._aug_rand_hue THEN Aug(i6, "hue") ELSE i6
  IN  [raised |-> FALSE,
       image  |-> Cast(ClipImage(i7), self._dtype),
       label  |-> ClassificationLabel(self, decoded_tensors)]

\* Classification_Parser._parse_eval_data
Classification_Parser_parse_eval_data(self, decoded_tensors) ==
  LET i0 == Cast(decoded_tensors.image, "float32")
      i1 == resize_with_pad(i0, self._output_size[1], self._output_size[2])
  IN  [raised |-> FALSE,
       image  |-> DivBy(i1, 255),
       label  |-> ClassificationLabel(self, decoded_tensors)]

ClassificationArgs ==
  [output_size : (2..MaxOut) \X (2..MaxOut), num_classes : {2},
   aug_rand_saturation : BOOLEAN, aug_rand_brightness : BOOLEAN,
   aug_rand_zoom : BOOLEAN, aug_rand_rotate : BOOLEAN, aug_rand_hue : BOOLEAN,
   aug_rand_aspect : BOOLEAN, dtype : SupportedDtypes \cup {"float64"},
   data : {NoData}]
DecodedImages == {Image(4, 6, px) : px \in {51, 255}}
DecodedTensors ==
  {[image |-> im, label |-> lb] : im \in DecodedImages, lb \in {0, 1}}
  \cup {[image |-> im, label |-> 0, objects |-> [bbox |-> <<1>>]] : im \in DecodedImages}
BrightnessDeltas == {-3, 0, 3}

InitClassification ==
  /\ NoLoader /\ obj = NoObj
  /\ op = "none" /\ status = "ready" /\ out = NoOut
  /\ args \in ClassificationArgs

ClassificationConstruct ==
  /\ op = "none"
  /\ op' = "__init__"
  /\ obj' = Classification_ParserInit(args)
  /\ status' = IF obj' = NoObj THEN "raised" ELSE "returned"
  /\ UNCHANGED <<out, args>>
  /\ UNCHANGED loaderVars

ClassificationParseTrain ==
  /\ obj # NoObj
  /\ \E d \in DecodedTensors, delta \in BrightnessDeltas :
       /\ args' = [args EXCEPT !.data = d]
       /\ out' = Classification_Parser_parse_train_data(obj, d, delta)
  /\ op' = "_parse_train_data" /\ status' = "returned"
  /\ UNCHANGED obj
  /\ UNCHANGED loaderVars

ClassificationParseEval ==
  /\ obj # NoObj
  /\ \E d \in DecodedTensors :
       /\ args' = [args EXCEPT !.data = d]
       /\ out' = Classification_Parser_parse_eval_data(obj, d)
  /\ op' = "_parse_eval_data" /\ status' = "returned"
  /\ UNCHANGED obj
  /\ UNCHANGED loaderVars

SpecClassification ==
  InitClassification
  /\ [][ClassificationConstruct \/ ClassificationParseTrain \/ ClassificationParseEval]_vars

\* ----------------------------------------------------------- claims: C19
NoAugmentation ==
  /\ ~args.aug_rand_saturation /\ ~args.aug_rand_brightness /\ ~args.aug_rand_zoom
  /\ ~args.aug_rand_rotate /\ ~args.aug_rand_hue /\ ~args.aug_rand_aspect

\* C19: with the six augmentation toggles off, for every supported dtype the
\* training path returns the image (pixel values, shape and element type)
\* and the label the evaluation path returns for the same record.
C19_TrainEqualsEvalWithoutAugmentation ==
  (op = "_parse_train_data" /\ obj.class = "Classification_Parser" /\ NoAugmentation) =>
     LET ev == Classification_Parser_parse_eval_data(obj, args.data)
     IN  /\ QEq(out.image.px, ev.image.px)
         /\ out.image.ops = ev.image.ops
         /\ out.image.h = ev.image.h /\ out.image.w = ev.image.w
         /\ out.image.dtype = ev.image.dtype
         /\ out.label = ev.label

\* ----------------------------------------------------------- claims: C20
\* C20: with output_size = [height, width] both paths return an image of
\* height output_size[0] and width output_size[1].
C20_OutputHeightThenWidth ==
  (op \in {"_parse_train_data", "_parse_eval_data"}
     /\ obj.class = "Classification_Parser") =>
     /\ out.image.h = args.output_size[1]
     /\ out.image.w = args.output_size[2]

\* ============================================================ YoloV1Layer
MaxGrid == 2        \* size
MaxNumBoxes == 2    \* num_boxes
MaxClasses == 2     \* num_classes
MaxBatch == 2       \* leading dimension of inputs

\* A tensor is its shape and its elements in row-major order (data[p + 1] is
\* the element at flat index p).  Elements are symbolic: an input element is
\* <<"in", n, i, j, channel>>, and every operation wraps its operands.
RECURSIVE Prod(_)
Prod(shape) == IF shape = <<>> THEN 1 ELSE Head(shape) * Prod(Tail(shape))
Last(shape) == shape[Len(shape)]
Front(shape) == SubSeq(shape, 1, Len(shape) - 1)
MkTensor(shape, f(_)) == [shape |-> shape, data |-> [p \in 1..Prod(shape) |-> f(p - 1)]]
At(t, p) == t.data[p + 1]

\* t[..., a:b]
SliceLastAxis(t, a, b) ==
  LET D == Last(t.shape)
      f(q) == At(t, (q \div (b - a)) * D + a + (q % (b - a)))
  IN  MkTensor(Front(t.shape) \o <<b - a>>, f)
\* t[..., k]
IndexLastAxis(t, k) ==
  LET D == Last(t.shape)
      f(q) == At(t, q * D + k)
  IN  MkTensor(Front(t.shape), f)
\* tf.reshape(t, [-1] + rest)
Reshape(t, rest) ==
  [shape |-> <<Prod(t.shape) \div Prod(rest)>> \o rest, data |-> t.data]
\* tf.expand_dims(t, axis = -1) and tf.expand_dims(t, axis = 2) of a rank-3 t
ExpandLast(t) == [t EXCEPT !.shape = @ \o <<1>>]
ExpandAxis2(t) == [t EXCEPT !.shape = <<@[1], @[2], 1, @[3]>>]
\* tf.stack([t] * n, axis = -2)
StackCopies(t, n) ==
  LET C == Last(t.shape)
      f(q) == At(t, (q \div (n * C)) * C + (q % C))
  IN  MkTensor(Front(t.shape) \o <<n, C>>, f)
\* a * b with b of shape [..., 1] broadcast over the last axis of a
MulBroadcast(a, b) ==
  LET C == Last(a.shape)
      f(q) == <<"mul", At(a, q), At(b, q \div C)>>
  IN  MkTensor(a.shape, f)
\* ks.activations.softmax(t, axis = -1) and tf.math.sigmoid(t)
softmax(t) ==
  LET C == Last(t.shape)
      f(q) == <<"softmax", At(t, q), {At(t, (q \div C) * C + k) : k \in 0..(C - 1)}>>
  IN  MkTensor(t.shape, f)
sigmoid(t) ==
  LET f(q) == <<"sigmoid", At(t, q)>>
  IN  MkTensor(t.shape, f)

\* loss_utils._build_grid_points(size, size, num_boxes): the grid point of
\* the cell, one per cell and box, at flat position q of a
\* [size, size, num_boxes] layout
_build_grid_points(size, num_boxes, q) ==
  <<"grid", (q \div num_boxes) \div size, (q \div num_boxes) % size>>

\* parse_boxes on [batch, size, size, num_boxes, 4]
parse_boxes(self, boxes) ==
  LET per == self._size * self._size * self._num_boxes
      f(q) == IF q % 4 < 2
              THEN <<"xy", At(boxes, q), self._size,
                     _build_grid_points(self._size, self._num_boxes, (q \div 4) % per)>>
              ELSE <<"pow2", At(boxes, q)>>
  IN  MkTensor(boxes.shape, f)

\* box_utils._xcycwh_to_yxyx: every output coordinate is made of its row
xcycwh_to_yxyx(boxes) ==
  LET f(q) == <<"yxyx", q % 4, [k \in 1..4 |-> At(boxes, (q \div 4) * 4 + k - 1)]>>
  IN  MkTensor(boxes.shape, f)

YoloV1LayerInit(a) ==
  [class        |-> "YoloV1Layer",
   _num_boxes   |-> a.num_boxes,
   _num_classes |-> a.num_classes,
   _size        |-> a.size,
   _thresh      |-> a.thresh,
   _cls_thresh  |-> a.cls_thresh,
   _use_nms     |-> a.use_nms,
   _max_boxes   |-> a.size * a.size * a.num_boxes]

\* parse_prediction reading the confidence from channel 5b instead of 5b + 4
parse_prediction_confidence_from_x(self, inputs) ==
  LET class_start == self._num_boxes * 5
      boxes_xywhc == Reshape(SliceLastAxis(inputs, 0, class_start),
                             <<self._size, self._size, self._num_boxes, 5>>)
      classes0    == SliceLastAxis(inputs, class_start, Last(inputs.shape))
      confidence0 == IndexLastAxis(boxes_xywhc, 0)
      boxes_xywh  == parse_boxes(self, SliceLastAxis(boxes_xywhc, 0, 4))
      boxes_yxyx  == ExpandAxis2(Reshape(xcycwh_to_yxyx(boxes_xywh), <<self._max_boxes, 4>>))
      classes1    == StackCopies(softmax(classes0), self._num_boxes)
      confidence  == ExpandLast(sigmoid(confidence0))
      classes     == Reshape(MulBroadcast(classes1, confidence),
                             <<self._max_boxes, self._num_classes>>)
  IN  [raised |-> FALSE, boxes |-> boxes_yxyx, classes |-> classes]

parse_prediction(self, inputs) ==
  LET class_start == self._num_boxes * 5
      boxes_xywhc == Reshape(SliceLastAxis(inputs, 0, class_start),
                             <<self._size, self._size, self._num_boxes, 5>>)
      classes0    == SliceLastAxis(inputs, class_start, Last(inputs.shape))
      confidence0 == IndexLastAxis(boxes_xywhc, 4)
      boxes_xywh  == parse_boxes(self, SliceLastAxis(boxes_xywhc, 0, 4))
      boxes_yxyx  == ExpandAxis2(Reshape(xcycwh_to_yxyx(boxes_xywh), <<self._max_boxes, 4>>))
      classes1    == StackCopies(softmax(classes0), self._num_boxes)
      confidence  == ExpandLast(sigmoid(confidence0))
      classes     == Reshape(MulBroadcast(classes1, confidence),
                             <<self._max_boxes, self._num_classes>>)
  IN  [raised |-> FALSE, boxes |-> boxes_yxyx, classes |-> classes]

\* call: the dict returned with and without non-max suppression
YoloV1Layer_call(self, inputs) ==
  LET pp == parse_prediction(self, inputs)
  IN  IF self._use_nms
      THEN LET nms == [boxes |-> pp.boxes, scores |-> pp.classes,
                       max_per_class |-> self._max_boxes, max_total |-> self._max_boxes,
                       iou_threshold |-> self._thresh,
                       score_threshold |-> self._cls_thresh]
           IN  [raised |-> FALSE,
                bbox |-> <<"nmsed_boxes", nms>>, classes |-> <<"nmsed_classes", nms>>,
                confidence |-> <<"nmsed_scores", nms>>, raw_output |-> inputs]
      ELSE [raised |-> FALSE,
            bbox |-> pp.boxes, classes |-> <<"argmax", pp.classes>>,
            confidence |-> pp.classes, raw_output |-> inputs]

\* the head's output for a batch: element (n, i, j, channel)
HeadOutput(self, batch) ==
  LET D == self._num_boxes * 5 + self._num_classes
      f(p) == <<"in", p \div (self._size * self._size * D),
                (p \div (self._size * D)) % self._size, (p \div D) % self._size, p % D>>
  IN  MkTensor(<<batch, self._size, self._size, D>>, f)

YoloV1Args ==
  [num_boxes : 1..MaxNumBoxes, num_classes : 1..MaxClasses, size : 1..MaxGrid,
   thresh : {45}, cls_thresh : {45, 25}, use_nms : BOOLEAN, batch : {0}]

InitYoloV1 ==
  /\ NoLoader
  /\ op = "__init__" /\ status = "returned" /\ out = NoOut
  /\ args \in YoloV1Args
  /\ obj = YoloV1LayerInit(args)

CallParsePrediction ==
  /\ \E batch \in 1..MaxBatch :
       /\ args' = [args EXCEPT !.batch = batch]
       /\ out' = parse_prediction(obj, HeadOutput(obj, batch))
  /\ op' = "parse_prediction" /\ status' = "returned"
  /\ UNCHANGED obj
  /\ UNCHANGED loaderVars

CallYoloV1Layer ==
  /\ \E batch \in 1..MaxBatch :
       /\ args' = [args EXCEPT !.batch = batch]
       /\ out' = YoloV1Layer_call(obj, HeadOutput(obj, batch))
  /\ op' = "call" /\ status' = "returned"
  /\ UNCHANGED obj
  /\ UNCHANGED loaderVars

SpecYoloV1 == InitYoloV1 /\ [][CallParsePrediction \/ CallYoloV1Layer]_vars

\* ----------------------------------------------------------- claims: C21
In(n, i, j, ch) == <<"in", n, i, j, ch>>
\* the box decoded from channels 5b .. 5b + 3 of cell (i, j), coordinate k
DecodedBox(n, i, j, b, k) ==
  LET g == <<"grid", i, j>>
      S == args.size
  IN  <<"yxyx", k, << <<"xy", In(n, i, j, 5 * b), S, g>>,
                      <<"xy", In(n, i, j, 5 * b + 1), S, g>>,
                      <<"pow2", In(n, i, j, 5 * b + 2)>>,
                      <<"pow2", In(n, i, j, 5 * b + 3)>> >> >>
\* class probability c of cell (i, j) times the confidence of its box b
CellScore(n, i, j, b, c) ==
  LET B == args.num_boxes
  IN  <<"mul",
        <<"softmax", In(n, i, j, 5 * B + c),
          {In(n, i, j, 5 * B + k) : k \in 0..(args.num_classes - 1)}>>,
        <<"sigmoid", In(n, i, j, 5 * b + 4)>> >>

\* C21: parse_prediction returns boxes of shape [batch, max_boxes, 1, 4] and
\* scores of shape [batch, max_boxes, num_classes]; row (i*size + j)*num_boxes
\* + b holds the box decoded from channels 5b..5b+3 of cell (i, j) and that
\* cell's class probabilities times the confidence of channel 5b+4, and no
\* channel below 5 * num_boxes is read as a class channel.
C21_BoxesAndScoresAligned ==
  (op = "parse_prediction" /\ obj.class = "YoloV1Layer") =>
     LET S == args.size
         B == args.num_boxes
         C == args.num_classes
         M == S * S * B
     IN  /\ obj._max_boxes = M
         /\ out.boxes.shape = <<args.batch, M, 1, 4>>
         /\ out.classes.shape = <<args.batch, M, C>>
         /\ \A n \in 0..(args.batch - 1), i \in 0..(S - 1), j \in 0..(S - 1),
               b \in 0..(B - 1) :
               LET row == n * M + (i * S + j) * B + b
               IN  /\ \A k \in 0..3 : At(out.boxes, row * 4 + k) = DecodedBox(n, i, j, b, k)
                   /\ \A c \in 0..(C - 1) :
                        At(out.classes, row * C + c) = CellScore(n, i, j, b, c)

\* parse_prediction ran on a batch of 2 with a 2 x 2 grid, 2 boxes per cell
\* and 2 classes
C21_Witness ==
  /\ op = "parse_prediction" /\ status = "returned" /\ obj.class = "YoloV1Layer"
  /\ args.batch = 2 /\ args.size = 2 /\ args.num_boxes = 2 /\ args.num_classes = 2
  /\ Len(out.classes.data) = 32

\* ----------------------------------------------------------- claims: C22
\* C22: set_darknet_weights without a flat_model writes weight group i to
\* layer i in declaration order and writes no layer more than once, whatever
\* the length of the weight list.
C22_EachLayerOnceInOrder ==
  (op = "set_darknet_weights") =>
     /\ \A k \in 1..Len(log) : log[k] = <<k, weights_decoder[k].id>>
     /\ \A k, l \in 1..Len(log) : log[k][1] = log[l][1] => k = l

\* ----------------------------------------------------------- claims: C23
\* C23: the decode layer the assembler builds when no head_filter is given
\* gets the class_thresh argument as its class-score threshold and the thresh
\* argument as its objectness/IoU threshold.
C23_FilterThresholdsFromArguments ==
  (op = "__init__" /\ status = "returned" /\ args.head_filter = "None") =>
     /\ yolo.head_filter.kind = "YoloLayer"
     /\ yolo.head_filter.cls_thresh = args.class_thresh
     /\ yolo.head_filter.thresh = args.thresh

\* ----------------------------------------------------------- claims: C26
\* construction with default anchors, masks and strides, and with backbone
\* and head either left out or given as built objects
DefaultsOrOverrides ==
  /\ op = "__init__"
  /\ args.boxes = None /\ args.masks = None /\ args.path_scales = None
  /\ args.backbone \in {"None", "custom"} /\ args.head \in {"None", "custom"}

\* C26: for every variant (regular, spp, tiny, yolov1) construction returns
\* with the model name, backbone, head and decode layer set, and the
\* custom-aspects flag is set exactly when a backbone or head was given.
C26_ConstructionCompletes ==
  DefaultsOrOverrides =>
     /\ status = "returned"
     /\ yolo.constructed
     /\ yolo._model_name # "None"
     /\ yolo.backbone # "None" /\ yolo.head # "None"
     /\ yolo.head_filter.kind # "None"
     /\ yolo._custom_aspects = (args.backbone = "custom" \/ args.head = "custom")

\* ----------------------------------------------------------- claims: C24
\* 0-based index of the first record after the last shortcut (after the stem
\* when there is none)
TrailStart(n) ==
  IF ShortcutPos(n) = {} THEN 2
  ELSE CHOOSE i \in ShortcutPos(n) : \A k \in ShortcutPos(n) : k <= i

\* C24: get_darknet53_tf_format returns for every record list of at least 2
\* records; when the last record after the stem is not a shortcut, the
\* records after the last shortcut are the last entry of the result.
C24_TerminatesWithTrailingGroup ==
  (op = "get_darknet53_tf_format" /\ Len(net) >= 2) =>
     /\ status = "returned"
     /\ (Len(net) > 2 /\ net[Len(net)]._type # "shortcut") =>
           out.new_net[Len(out.new_net)] = Block(Slice(net, TrailStart(net), Len(net)))

\* ----------------------------------------------------------- claims: C25
\* the places (entry, position) of the returned structure that hold record r
PlacesOf(new_net, r) ==
  {p \in UNION {{<<e, k>> : k \in 1..Len(new_net[e].layers)} : e \in 1..Len(new_net)} :
      new_net[p[1]].layers[p[2]] = r}

\* C25: for every record list of at least 5 records, get_darknet20_tf_format
\* returns a structure in which each input record appears exactly once.
C25_EveryRecordOnce ==
  (op = "get_darknet20_tf_format" /\ Len(net) >= 5) =>
     /\ status = "returned"
     /\ \A i \in 1..Len(net) : Cardinality(PlacesOf(out.new_net, net[i])) = 1

====
